---------------------------- MODULE Spec2Model ----------------------------
(***************************************************************************)
(* NOC buzzer appliance: the mailbox-to-alarm loop of the three entry      *)
(* points (app.py "integrated", final.py "decoupled", ims.py "minimal"),   *)
(* the field-bus buzzer control of each, the fault table and the live      *)
(* counters.                                                               *)
(*                                                                         *)
(* Time is counted in seconds and passes in steps of TickLen seconds; a    *)
(* timer or a sleeping thread may run late, never early.                   *)
(***************************************************************************)
EXTENDS Integers, Sequences, FiniteSets, TLC

\* ------------------------------------------------------------ bounds
MaxInbox == 2       \* messages that arrive in the mailbox during a run
MaxFaults == 3      \* rows of the Faults table (today)
MaxThreads == 2     \* deactivation timers / sleeping buzzer threads alive at once
MaxLogs == 103      \* add_log calls followed on their own
MaxExecs == 5       \* re-executions of the process followed
MaxClock == 1200    \* seconds of the dashboard connector's clock followed
MaxFailures == 2    \* consecutive failed dashboard probes counted
MaxLoads == 2       \* load_config calls followed
MaxSleepClock == 600 \* seconds the polling loop's sleeps are followed for
MaxInserts == 12     \* insert_mysql calls followed
MaxRuns == 3         \* validate_all calls on one PreflightValidator
MaxTrainings == 3    \* training runs of the model manager followed

\* ------------------------------------------------- program constants
BUZZER_DURATION == 10            \* CONFIG['BUZZER_DURATION'] (app.py, final.py)
TEST_DURATION == 5               \* test_buzzer(duration=5), /api/test-buzzer default
MINIMAL_DURATION == 30           \* ims.py: activate_buzzer_async(duration=30)
MAX_DESC_LEN == 255              \* CONFIG['MAX_DESC_LEN'], MAX_DESC_LEN, literal 255
THRESHOLD_PCT == 70              \* is_similar_to_false_alert(text, threshold=0.7)
MINIMAL_THRESHOLD_PCT == 50      \* ims.py is_similar(..., threshold=0.5)
MODBUS_REGISTER == 10            \* CONFIG['MODBUS_REGISTER'], BUZZER_FLAG_REG
BUZZER_SIGNAL_ON == 1            \* ims.py
BUZZER_SIGNAL_OFF == 0           \* ims.py
MAX_RESTART_ATTEMPTS == 3        \* final.py CONFIG
CHECK_INTERVAL == 300            \* final.py SmartDashboardConnector.check_interval
EMAIL_CHECK_INTERVAL == 30       \* CONFIG['EMAIL_CHECK_INTERVAL'] of app.py and final.py
POLL_INTERVAL == 30              \* ims.py POLL_INTERVAL
ERROR_SLEEP == 60                \* time.sleep(60) in the loops' except clause
REFRESH_THRESHOLD_HOURS == 1     \* secure_gmail.py __init__: refresh_threshold_hours default
MIN_ROWS == 50                   \* hardened_ml_models.py _validate_dataset: min_rows
MAX_EMPTY_PCT == 10              \* hardened_ml_models.py _validate_dataset: max_empty_ratio 0.1
LOG_CAP == 100                   \* add_log: self.logs[:100]
STATUS_LOGS == 20                \* get_status_dict: list(self.logs)[:20]

Modes == {"integrated", "decoupled", "minimal"}

\* The 5-register command block written at address 1.
ON_PATTERN == <<1, 10, 3, 10, 10>>
OFF_PATTERN == <<1, 0, 3, 10, 0>>

\* Durations a dashboard operator posts to /api/test-buzzer.
TestDurations == {1, TEST_DURATION}

\* Seconds that pass in one Tick: the resolution of the model's clock.
TickLen == TEST_DURATION

\* ------------------------------------------------------------ state
VARIABLES
    mode,           \* which entry point runs
    pc,             \* polling thread: "boot", "idle", "listing", "exited"
    running,        \* system_state.running
    gmail,          \* a mailbox client object exists
    server,         \* field-bus server: "None", "stopped" (is_run false), "running"
    hregs,          \* the server's holding registers (addresses 1..5 and 10)
    modbus_ok,      \* components_status['modbus']
    buzzer_active,  \* system_state.buzzer_active
    active_timer,   \* BuzzerController.active_timer: "None" or "Timer"
    threads,        \* live timer / sleeper threads
    lastCall,       \* the latest buzzer-control call and what it returned
    arrived,        \* how many messages have arrived so far
    inbox,          \* the unread messages of the mailbox, in arrival order
    listing,        \* the fetched unread listing: what the for loop has not passed yet
    pass,           \* the latest pass of the for loop: what it did to which message
    faults,         \* the Faults table (rows of today)
    email_stats,    \* system_state.email_stats counters
    cycleBase,      \* counters, table size and listing size when the current cycle fetched
    ballot,         \* the latest classifier_pred call seen alone: five predictions, result
    logs,           \* system_state.logs as add_log alone fills it: entry numbers
    logged,         \* how many add_log calls have been made
    exit_code,      \* the process's exit status, NoExit while it runs
    restart_count,  \* final.py: system_state.restart_count of the running process
    execs,          \* how many times the process has re-executed itself (os.execv)
    lock,           \* app.py: the thread holding SystemState._lock, or "free"
    poll,           \* polling thread inside process_email, statement by statement
    req,            \* a dashboard request inside update_email_stats_from_db
    stat,           \* a dashboard request inside get_status_dict
    snap,           \* the counters of the latest /api/status answer
    dash,           \* final.py: the dashboard connector, its clock, its latest call
    cfg,            \* config_loader.py: the global config, the load count, the latest call
    pre,            \* preflight_validator.py: the latest run_preflight_checks()
    ml,             \* hardened_ml_models.py: cache directory, manager instance, latest call
    tok,            \* secure_gmail.py: token file, client key, latest _authenticate()
    dec,            \* decisions.py: the latest should_sound_buzzer(pred)
    nap,            \* polling loop: how the latest cycle ended and what it slept
    conn            \* mysql_insert.py: connections opened and still open, latest call

logVars == <<logs, logged>>
startVars == <<exit_code, restart_count, execs>>
storeVars == <<lock, poll, req, stat, snap>>
sideVars == <<dash, cfg, pre, ml, tok, dec, nap, conn>>
mainVars == <<mode, pc, running, gmail, ballot, logVars, startVars, storeVars>>
procVars == <<mainVars, sideVars>>
buzzVars == <<server, hregs, modbus_ok, buzzer_active, active_timer, threads>>
mailVars == <<arrived, inbox, listing, pass>>
dbVars == <<faults, email_stats, cycleBase>>
vars == <<procVars, buzzVars, lastCall, mailVars, dbVars>>

\* ------------------------------------------------------------ helpers
Max(a, b) == IF a >= b THEN a ELSE b
Min(a, b) == IF a <= b THEN a ELSE b

\* No exit status yet: the process is running.
NoExit == -1

\* try: ... sys.exit(raised) ... finally: <a call that ends in sys.exit(last)>.
\* The SystemExit raised in the finally clause replaces the one in flight.
finally_exit(raised, last) == IF last # NoExit THEN last ELSE raised

\* ------------------------------------------------- field-bus registers
Addrs == (1..5) \cup {MODBUS_REGISTER}

\* A new ModbusServer owns a new data bank: every register reads 0.
FreshRegs == [a \in Addrs |-> 0]

\* data_bank.set_holding_registers(addr, values)
set_holding_registers(h, addr, values) ==
    [a \in Addrs |->
        IF a >= addr /\ a < addr + Len(values) THEN values[a - addr + 1] ELSE h[a]]

Block(h) == <<h[1], h[2], h[3], h[4], h[5]>>


\* ------------------------------------------------- buzzer control state
\* The fields a buzzer-control call reads and writes, with its return value.
BZ ==
    [server |-> server, hregs |-> hregs, modbus_ok |-> modbus_ok,
     buzzer_active |-> buzzer_active, active_timer |-> active_timer,
     threads |-> threads, ret |-> TRUE]

SetBZ(b) ==
    /\ server' = b.server
    /\ hregs' = b.hregs
    /\ modbus_ok' = b.modbus_ok
    /\ buzzer_active' = b.buzzer_active
    /\ active_timer' = b.active_timer
    /\ threads' = b.threads

\* A thread that will switch the buzzer off: rem seconds still to wait, ref
\* when BuzzerController.active_timer refers to it, on once its ON write is done.
Thread(d, isRef, isOn) == [rem |-> d, ref |-> isRef, on |-> isOn]

Unreferenced(ts) == [i \in 1..Len(ts) |-> [ts[i] EXCEPT !.ref = FALSE]]

RemoveAt(s, i) == SubSeq(s, 1, i - 1) \o SubSeq(s, i + 1, Len(s))

\* threading.Timer.cancel() on self.active_timer: the timer thread it refers
\* to, if still waiting, ends without calling its function.
cancel(b) == [b EXCEPT !.threads = SelectSeq(@, LAMBDA t : ~t.ref)]

\* ------------------------------------------- app.py: BuzzerController
InitOutcomes == {"ok", "ctor_fail", "start_fail"}

\* BuzzerController.initialize(); outcome says where ModbusServer failed, if it did.
initialize(b, outcome) ==
    CASE outcome = "ok" ->
            [b EXCEPT !.server = "running",
                      !.hregs = set_holding_registers(FreshRegs, MODBUS_REGISTER, <<0>>),
                      !.modbus_ok = TRUE, !.ret = TRUE]
      [] outcome = "start_fail" ->
            [b EXCEPT !.server = "stopped", !.hregs = FreshRegs,
                      !.modbus_ok = FALSE, !.ret = FALSE]
      [] OTHER ->
            [b EXCEPT !.modbus_ok = FALSE, !.ret = FALSE]

\* activate_buzzer that forgets update_buzzer_state(True).
activate_buzzer_NoFlag(b, duration) ==
    IF b.server # "running"
    THEN [b EXCEPT !.ret = FALSE]
    ELSE LET c == IF b.active_timer # "None" THEN cancel(b) ELSE b
         IN [c EXCEPT !.hregs = set_holding_registers(@, 1, ON_PATTERN),
                      !.threads = Append(Unreferenced(@), Thread(duration, TRUE, TRUE)),
                      !.active_timer = "Timer",
                      !.ret = TRUE]

\* activate_buzzer that starts the new timer without cancelling the old one.
activate_buzzer_NoCancel(b, duration) ==
    IF b.server # "running"
    THEN [b EXCEPT !.ret = FALSE]
    ELSE [b EXCEPT !.hregs = set_holding_registers(@, 1, ON_PATTERN),
                   !.buzzer_active = TRUE,
                   !.threads = Append(Unreferenced(@), Thread(duration, TRUE, TRUE)),
                   !.active_timer = "Timer",
                   !.ret = TRUE]

\* activate_buzzer that cancels the pending timer before it looks at the server.
activate_buzzer_CancelFirst(b, duration) ==
    LET c == IF b.active_timer # "None" THEN cancel(b) ELSE b
    IN IF c.server # "running"
       THEN [c EXCEPT !.ret = FALSE]
       ELSE [c EXCEPT !.hregs = set_holding_registers(@, 1, ON_PATTERN),
                      !.buzzer_active = TRUE,
                      !.threads = Append(Unreferenced(@), Thread(duration, TRUE, TRUE)),
                      !.active_timer = "Timer",
                      !.ret = TRUE]

\* BuzzerController.activate_buzzer(duration)
activate_buzzer(b, duration) ==
    IF b.server # "running"
    THEN [b EXCEPT !.ret = FALSE]
    ELSE LET c == IF b.active_timer # "None" THEN cancel(b) ELSE b
         IN [c EXCEPT !.hregs = set_holding_registers(@, 1, ON_PATTERN),
                      !.buzzer_active = TRUE,
                      !.threads = Append(Unreferenced(@), Thread(duration, TRUE, TRUE)),
                      !.active_timer = "Timer",
                      !.ret = TRUE]

\* deactivate_buzzer that drops its reference to the timer without cancelling it.
deactivate_buzzer_NoCancel(b) ==
    IF b.server # "running"
    THEN [b EXCEPT !.ret = FALSE]
    ELSE [b EXCEPT !.active_timer = "None",
                   !.threads = Unreferenced(@),
                   !.hregs = set_holding_registers(@, 1, OFF_PATTERN),
                   !.buzzer_active = FALSE,
                   !.ret = TRUE]

\* BuzzerController.deactivate_buzzer()
deactivate_buzzer(b) ==
    IF b.server # "running"
    THEN [b EXCEPT !.ret = FALSE]
    ELSE LET c == IF b.active_timer # "None" THEN cancel(b) ELSE b
         IN [c EXCEPT !.active_timer = "None",
                      !.hregs = set_holding_registers(@, 1, OFF_PATTERN),
                      !.buzzer_active = FALSE,
                      !.ret = TRUE]

\* BuzzerController.test_buzzer(duration)
test_buzzer(b, duration) == activate_buzzer(b, duration)

\* BuzzerController.cleanup()
cleanup(b) ==
    LET c == IF b.active_timer # "None" THEN cancel(b) ELSE b
    IN IF c.server = "running"
       THEN [c EXCEPT !.hregs = set_holding_registers(@, 1, OFF_PATTERN),
                      !.server = "stopped"]
       ELSE c

\* ------------------------------------------- final.py: buzzer functions
\* activate_buzzer(duration) of final.py: a new sleeping thread per call.
final_activate_buzzer(b, duration) ==
    IF b.server = "running"
    THEN [b EXCEPT !.hregs = set_holding_registers(@, 1, ON_PATTERN),
                   !.buzzer_active = TRUE,
                   !.threads = Append(@, Thread(duration, FALSE, TRUE)),
                   !.ret = TRUE]
    ELSE [b EXCEPT !.ret = FALSE]

\* deactivate_after_delay, after its sleep, run by thread i.
final_deactivate_after_delay(b, i) ==
    LET c == [b EXCEPT !.threads = RemoveAt(@, i)]
    IN IF c.server = "running"
       THEN [c EXCEPT !.hregs = set_holding_registers(@, 1, OFF_PATTERN),
                      !.buzzer_active = FALSE]
       ELSE c

\* cleanup_and_exit of final.py, up to sys.exit.
final_cleanup(b) ==
    LET c == IF b.server = "running"
             THEN [b EXCEPT !.hregs = set_holding_registers(@, 1, OFF_PATTERN)]
             ELSE b
    IN [c EXCEPT !.server = IF @ = "None" THEN "None" ELSE "stopped",
                 !.threads = <<>>]

\* ------------------------------------------- ims.py: buzzer functions
\* activate_buzzer_async(duration): starts a thread that runs signal_buzzer.
activate_buzzer_async(b, duration) ==
    [b EXCEPT !.threads = Append(@, Thread(duration, FALSE, FALSE))]

\* signal_buzzer, first statement (thread i): the flag register goes to ON.
signal_buzzer_on(b, i) ==
    [b EXCEPT !.hregs = set_holding_registers(@, MODBUS_REGISTER, <<BUZZER_SIGNAL_ON>>),
              !.threads[i].on = TRUE]

\* signal_buzzer, the finally clause after the sleep (thread i).
signal_buzzer_off(b, i) ==
    [b EXCEPT !.hregs = set_holding_registers(@, MODBUS_REGISTER, <<BUZZER_SIGNAL_OFF>>),
              !.threads = RemoveAt(@, i)]

\* The activation the polling loop of each entry point performs on an alarm.
Activate(m, b) ==
    CASE m = "integrated" -> activate_buzzer(b, BUZZER_DURATION)
      [] m = "decoupled" -> final_activate_buzzer(b, BUZZER_DURATION)
      [] OTHER -> activate_buzzer_async(b, MINIMAL_DURATION)

\* ------------------------------------------------------------ messages
\* A text is known by its length, the SequenceMatcher ratio (in percent) it
\* has to the configured false-alert text, and the labels the support-vector,
\* decision-tree and random-forest models give it.
Text(n, r, v) == [len |-> n, ratio |-> r, votes |-> v]
EmptyText == Text(0, 0, <<>>)

\* A mailbox message: its plain body and the text its HTML body extracts to.
Content(p, h) == [plain |-> p, html |-> h]

\* The k-th message that arrived.
Message(k, c) == [id |-> k, plain |-> c.plain, html |-> c.html]

AlarmText == Text(40, 20, <<"Alarm", "Alarm", "Information">>)
LongInfoText == Text(300, 10, <<"Information", "Alarm", "Information">>)
BorderText == Text(100, 70, <<"Alarm", "Alarm", "Alarm">>)
NearText == Text(90, 60, <<"alarm", "Information", "alarm">>)

Arrivals ==
    { Content(AlarmText, EmptyText),
      Content(LongInfoText, EmptyText),
      Content(BorderText, EmptyText),
      Content(NearText, EmptyText),
      Content(EmptyText, EmptyText),
      Content(EmptyText, AlarmText) }

\* str.lower() on the labels that occur.
Lower(label) ==
    CASE label = "Alarm" -> "alarm"
      [] label = "Information" -> "information"
      [] label = "Warning" -> "warning"
      [] OTHER -> label

\* Where an exception is raised while one message is handled: nowhere, in
\* body extraction, in the similarity filter, in the classifier, in every
\* mark_as_read call ("mark"), or in the first mark_as_read call only ("mark1").
FailSites == {"none", "extract", "filter", "classify", "mark", "mark1"}

\* ------------------------------------------- prediction_fin.py
\* statistics.mode: the most frequent value, the first one met among equals.
most_common(thislistt) ==
    LET n(x) == Cardinality({i \in 1..Len(thislistt) : thislistt[i] = x})
        best == CHOOSE i \in 1..Len(thislistt) :
                    /\ \A j \in 1..Len(thislistt) : n(thislistt[j]) <= n(thislistt[i])
                    /\ \A j \in 1..(i - 1) : n(thislistt[j]) < n(thislistt[i])
    IN thislistt[best]

\* classifier_pred: the mode of [SVM, DTC, RF].
classifier_pred(text) == most_common(text.votes)

\* The labels the training data holds.
Labels == {"Alarm", "Information", "Warning"}

\* What the five trained models predict for one text.
Ballots == [LR : Labels, SVM : Labels, RF : Labels, Naive : Labels, DTC : Labels]

\* The list the commented-out line 69 builds: all five predictions.
thislistt_AllFive(p) == <<p.SVM, p.DTC, p.LR, p.Naive, p.RF>>

\* thislistt of classifier_pred (line 71): the predictions that are counted.
thislistt(p) == <<p.SVM, p.DTC, p.RF>>

NoBallot == [LR |-> "", SVM |-> "", RF |-> "", Naive |-> "", DTC |-> "", out |-> ""]

\* ------------------------------------------- false-alert filter
\* A filter that lets a ratio equal to the threshold through.
is_similar_to_false_alert_Strict(text, thresholdPct) == text.ratio > thresholdPct

\* is_similar_to_false_alert(text, threshold) / is_similar(body, alerts, threshold)
is_similar_to_false_alert(text, thresholdPct) == text.ratio >= thresholdPct

Threshold(m) == IF m = "minimal" THEN MINIMAL_THRESHOLD_PCT ELSE THRESHOLD_PCT

\* No truncation at all.
Truncate_None(text) == text

\* message_body[:MAX_DESC_LEN]
Truncate(text) == [text EXCEPT !.len = Min(@, MAX_DESC_LEN)]

\* ------------------------------------------- one pass of the for loop
\* What handling one message did: the message's id, the steps in order, the
\* prediction, the row inserted (if any), whether the counters were bumped,
\* whether the buzzer activation was called, whether the message ended up
\* read, whether an exception was raised on the way, and whether it left the
\* for loop.
NoEffect ==
    [id |-> 0, steps |-> <<>>, pred |-> "", insert |-> FALSE, desc |-> 0,
     counted |-> FALSE, activate |-> FALSE, read |-> FALSE, raised |-> FALSE,
     abort |-> FALSE]

\* The pass over message msg begins.
Start(msg) == [NoEffect EXCEPT !.id = msg.id]

Step(e, name) == [e EXCEPT !.steps = Append(@, name)]

\* A handler that logs the error and forgets the message.
ExceptMark_NoMark(e, f) == [e EXCEPT !.raised = TRUE]

\* The handler of the per-message try (app.py 388-393, final.py 659-664):
\* log, then try mark_as_read, ignoring its failure.
ExceptMark(e, f) ==
    [Step(e, "mark_read") EXCEPT !.read = (f # "mark"), !.raised = TRUE]

\* message.mark_as_read() inside the per-message try.
TryMark(e, f) ==
    IF f \in {"mark", "mark1"}
    THEN ExceptMark(Step(e, "mark_read"), f)
    ELSE [Step(e, "mark_read") EXCEPT !.read = TRUE]

\* process_email(message_body, prediction) of app.py and final.py: everything
\* after a failing insert is skipped by the function's own try/except.
process_email(e, body, prediction, db) ==
    LET e1 == Step(e, "persist")
    IN IF ~db
       THEN [e1 EXCEPT !.raised = TRUE]
       ELSE LET e2 == [Step(e1, "react") EXCEPT
                          !.insert = TRUE, !.desc = body.len, !.counted = TRUE]
            IN IF Lower(prediction) = "alarm"
               THEN [Step(e2, "activate") EXCEPT !.activate = TRUE]
               ELSE e2

\* The body the loop works on.
MessageBody(m, msg) ==
    CASE m = "decoupled" -> msg.plain
      [] OTHER -> IF msg.plain.len > 0 THEN msg.plain ELSE msg.html

\* The for-loop body of email_monitoring_loop (app.py 372-393, final.py 625-664).
loop_body(m, msg, f, db) ==
    IF f = "extract"
    THEN ExceptMark(Start(msg), f)
    ELSE LET body == MessageBody(m, msg)
         IN IF body.len = 0
            THEN TryMark(Start(msg), f)
            ELSE LET e1 == Step(Start(msg), "filter")
                 IN IF f = "filter"
                    THEN ExceptMark(e1, f)
                    ELSE IF is_similar_to_false_alert(body, Threshold(m))
                    THEN TryMark(e1, f)
                    ELSE LET e2 == IF body.len > MAX_DESC_LEN
                                   THEN Step(e1, "truncate") ELSE e1
                             tb == Truncate(body)
                             e3 == Step(e2, "classify")
                             pred == classifier_pred(tb)
                         IN IF f = "classify"
                            THEN ExceptMark(e3, f)
                            ELSE TryMark(process_email([e3 EXCEPT !.pred = pred],
                                                       tb, pred, db), f)

\* An exception that leaves the for loop of ims.py (no per-message handler).
Abort(e) == [e EXCEPT !.raised = TRUE, !.abort = TRUE]

\* msg.mark_as_read() in ims.py.
MinimalMark(e, f) ==
    IF f \in {"mark", "mark1"}
    THEN Abort(Step(e, "mark_read"))
    ELSE [Step(e, "mark_read") EXCEPT !.read = TRUE]

\* The for-loop body of main() in ims.py (96-123).
minimal_loop_body(m, msg, f, db) ==
    IF f = "extract"
    THEN Abort(Start(msg))
    ELSE LET body == MessageBody(m, msg)
         IN IF body.len = 0
            THEN MinimalMark(Start(msg), f)
            ELSE LET e1 == Step(Start(msg), "filter")
                 IN IF f = "filter"
                    THEN Abort(e1)
                    ELSE IF is_similar_to_false_alert(body, Threshold(m))
                    THEN MinimalMark(e1, f)
                    ELSE LET e2 == IF body.len > MAX_DESC_LEN
                                   THEN Step(e1, "truncate") ELSE e1
                             tb == Truncate(body)
                             e3 == Step(e2, "classify")
                         IN IF f = "classify"
                            THEN Abort(e3)
                            ELSE LET pred == classifier_pred(tb)
                                     e4 == [Step(e3, "persist") EXCEPT !.pred = pred]
                                     e5 == IF db
                                           THEN [e4 EXCEPT !.insert = TRUE, !.desc = tb.len]
                                           ELSE [e4 EXCEPT !.raised = TRUE]
                                     e6 == IF Lower(pred) = "alarm"
                                           THEN [Step(e5, "activate") EXCEPT !.activate = TRUE]
                                           ELSE e5
                                 IN MinimalMark(e6, f)

HandleMessage(m, msg, f, db) ==
    IF m = "minimal" THEN minimal_loop_body(m, msg, f, db) ELSE loop_body(m, msg, f, db)

\* ------------------------------------------- fault table and counters
\* mysql_insert.insert_mysql(fault_desc, fault_cat): one more row.
insert_mysql(table, k, fault_desc, fault_cat) ==
    Append(table, [msg |-> k, len |-> fault_desc, category |-> fault_cat])

IsAlarmRow(row) == Lower(row.category) = "alarm"
IsInfoRow(row) == Lower(row.category) # "alarm"

\* The three COUNT(*) queries of update_email_stats_from_db / update_email_stats
\* (fault_category compared under the server's case-insensitive collation).
DbStats(table) ==
    [total_today |-> Len(table),
     alarms_today |-> Len(SelectSeq(table, IsAlarmRow)),
     info_today |-> Len(SelectSeq(table, IsInfoRow))]

\* update_email_stats_from_db(): nothing changes without a connection.
update_email_stats_from_db(stats, table, db) == IF db THEN DbStats(table) ELSE stats

\* Counter updates that compare the prediction without lower().
BumpStats_CaseSensitive(stats, prediction) ==
    [stats EXCEPT !.total_today = @ + 1,
                  !.alarms_today = IF prediction = "alarm" THEN @ + 1 ELSE @,
                  !.info_today = IF prediction = "alarm" THEN @ ELSE @ + 1]

\* The counter updates of process_email.
BumpStats(stats, prediction) ==
    [stats EXCEPT !.total_today = @ + 1,
                  !.alarms_today = IF Lower(prediction) = "alarm" THEN @ + 1 ELSE @,
                  !.info_today = IF Lower(prediction) = "alarm" THEN @ ELSE @ + 1]

ZeroStats == [total_today |-> 0, alarms_today |-> 0, info_today |-> 0]

\* ------------------------------------------- final.py: SmartDashboardConnector
\* The clock moves in steps of half the check interval, so that a call falls
\* before, exactly on and after the interval's end.
ClockStep == 150

\* time.time() when the connector is built: far more than the interval.
StartTime == 450

\* No call of the connector yet.
NoDashCall == [op |-> "none", at |-> 0, prev_check |-> 0, prev_available |-> FALSE,
               open |-> FALSE, probed |-> FALSE, log |-> "none", ret |-> FALSE]

\* SmartDashboardConnector.__init__, the clock, the latest call.
NewDash == [available |-> FALSE, last_check |-> 0, consecutive_failures |-> 0,
            now |-> StartTime, call |-> NoDashCall]

\* _should_check_availability that probes from the interval's end on.
should_check_availability_AtLeast(c) == (c.now - c.last_check) >= CHECK_INTERVAL

\* _should_check_availability
should_check_availability(c) == (c.now - c.last_check) > CHECK_INTERVAL

\* check_availability; open is what _check_port_open returns.
check_availability(c, op, open) ==
    [c EXCEPT !.last_check = c.now,
              !.available = open,
              !.consecutive_failures = IF open THEN 0 ELSE @ + 1,
              !.call = [op |-> op, at |-> c.now, prev_check |-> c.last_check,
                        prev_available |-> c.available, open |-> open, probed |-> TRUE,
                        log |-> IF open /\ ~c.available THEN "restored"
                                ELSE IF ~open /\ c.available THEN "lost"
                                ELSE "none",
                        ret |-> open]]

\* is_available
is_available(c, open) ==
    IF should_check_availability(c)
    THEN check_availability(c, "is_available", open)
    ELSE [c EXCEPT !.call = [op |-> "is_available", at |-> c.now,
                             prev_check |-> c.last_check,
                             prev_available |-> c.available, open |-> open,
                             probed |-> FALSE, log |-> "none", ret |-> c.available]]

\* ------------------------------------------- config_loader.py
\* A value with its Python type; the value itself is kept as text.
Val(t, v) == [t |-> t, v |-> v, name |-> "", default |-> ""]

\* A YAML string holding one placeholder ${name:default}.
Ref(name, default) == [t |-> "str", v |-> "${}", name |-> name, default |-> default]

\* os.getenv gives None for a variable that is not set.
Unset == "<unset>"

\* The environments load() is run in.
Envs == [DB_PASSWORD : {Unset, "", "pw"}, SECRET_KEY : {Unset, "", "key"},
         DASHBOARD_DEBUG : {Unset, "TRUE", "no"}, DASHBOARD_PORT : {Unset, "8080"}]

\* The configuration files: dashboard.debug and dashboard.port written as
\* YAML scalars or as placeholders; the two secrets always as placeholders.
RawConfigs ==
    {[debug |-> Val("bool", "true"), port |-> Val("int", "5000"),
      password |-> Ref("DB_PASSWORD", ""), secret_key |-> Ref("SECRET_KEY", "")],
     [debug |-> Ref("DASHBOARD_DEBUG", "on"), port |-> Ref("DASHBOARD_PORT", "5000"),
      password |-> Ref("DB_PASSWORD", ""), secret_key |-> Ref("SECRET_KEY", "")]}

\* _substitute_env_vars on one scalar: re.sub with os.getenv(name, default).
substitute_env_vars(value, env) ==
    IF value.t = "str" /\ value.name # ""
    THEN Val("str", IF env[value.name] # Unset THEN env[value.name] ELSE value.default)
    ELSE value

\* str.lower() on the texts that occur.
LowerText(text) ==
    CASE text = "TRUE" -> "true"
      [] text = "On" -> "on"
      [] OTHER -> text

\* _convert_types(value, expected_type)
convert_types(value, expected_type) ==
    IF expected_type = "bool" /\ value.t = "str"
    THEN Val("bool", IF LowerText(value.v) \in {"true", "1", "yes", "on"} THEN "true" ELSE "false")
    ELSE IF expected_type \in {"int", "float"} /\ value.t = "str"
    THEN Val(expected_type, value.v)
    ELSE value

\* _validate_required_env_vars that asks only whether a variable is set.
validate_required_env_vars_SetOnly(env) ==
    SelectSeq(<<"DB_PASSWORD", "SECRET_KEY">>, LAMBDA var : env[var] = Unset)

\* _validate_required_env_vars: the required variables that are unset or empty.
validate_required_env_vars(env) ==
    SelectSeq(<<"DB_PASSWORD", "SECRET_KEY">>, LAMBDA var : env[var] \in {Unset, ""})

NoConfig == [id |-> 0, debug |-> Val("none", ""), port |-> Val("none", ""),
             password |-> "", secret_key |-> ""]

\* ConfigLoader.load(): what it raises, which variables the message names,
\* how far it got, and the Config it returns (id is the number of the call).
load(id, file_exists, env, raw, secrets_exist) ==
    LET missing_vars == validate_required_env_vars(env)
        failed(error, named, reached) ==
            [ok |-> FALSE, error |-> error, named |-> named, reached |-> reached,
             config |-> NoConfig]
        debug == substitute_env_vars(raw.debug, env)
        port == substitute_env_vars(raw.port, env)
        password == substitute_env_vars(raw.password, env).v
        secret_key == substitute_env_vars(raw.secret_key, env).v
    IN IF ~file_exists THEN failed("FileNotFoundError", <<>>, "file")
       ELSE IF missing_vars # <<>> THEN failed("ValueError", missing_vars, "env")
       ELSE IF password = "" \/ secret_key = "" THEN failed("ValueError", <<>>, "validate")
       ELSE IF ~secrets_exist THEN failed("FileNotFoundError", <<>>, "validate")
       ELSE [ok |-> TRUE, error |-> "none", named |-> <<>>, reached |-> "validate",
             config |-> [id |-> id, debug |-> debug, port |-> port,
                         password |-> password, secret_key |-> secret_key]]

\* The module after import: config = None, no call yet.
NoCfgCall == [op |-> "none", ok |-> TRUE, error |-> "none", named |-> <<>>,
              reached |-> "none", file_exists |-> TRUE, missing |-> <<>>,
              debug |-> Val("none", ""), port |-> Val("none", ""), prev |-> NoConfig,
              ret |-> NoConfig]
NewCfg == [config |-> NoConfig, loads |-> 0, succeeded |-> 0, call |-> NoCfgCall]

\* load_config that clears the global before loading.
load_config_ClearFirst(c, file_exists, env, raw, secrets_exist) ==
    LET r == load(c.loads + 1, file_exists, env, raw, secrets_exist)
    IN [c EXCEPT !.config = r.config,
                 !.loads = @ + 1,
                 !.succeeded = IF r.ok THEN @ + 1 ELSE @,
                 !.call = [op |-> "load_config", ok |-> r.ok, error |-> r.error,
                           named |-> r.named, reached |-> r.reached,
                           file_exists |-> file_exists,
                           missing |-> SelectSeq(<<"DB_PASSWORD", "SECRET_KEY">>,
                                                 LAMBDA var : env[var] \in {Unset, ""}),
                           debug |-> substitute_env_vars(raw.debug, env),
                           port |-> substitute_env_vars(raw.port, env),
                           prev |-> c.config, ret |-> r.config]]

\* load_config(): config = _config_loader.load(); the assignment is not
\* reached when load() raises.
load_config(c, file_exists, env, raw, secrets_exist) ==
    LET r == load(c.loads + 1, file_exists, env, raw, secrets_exist)
    IN [c EXCEPT !.config = IF r.ok THEN r.config ELSE @,
                 !.loads = @ + 1,
                 !.succeeded = IF r.ok THEN @ + 1 ELSE @,
                 !.call = [op |-> "load_config", ok |-> r.ok, error |-> r.error,
                           named |-> r.named, reached |-> r.reached,
                           file_exists |-> file_exists,
                           missing |-> SelectSeq(<<"DB_PASSWORD", "SECRET_KEY">>,
                                                 LAMBDA var : env[var] \in {Unset, ""}),
                           debug |-> substitute_env_vars(raw.debug, env),
                           port |-> substitute_env_vars(raw.port, env),
                           prev |-> c.config, ret |-> r.config]]

\* get_config(): RuntimeError while config is None.
get_config(c) ==
    [c EXCEPT !.call = [NoCfgCall EXCEPT !.op = "get_config",
                                         !.ok = (c.config # NoConfig),
                                         !.error = IF c.config = NoConfig
                                                   THEN "RuntimeError" ELSE "none",
                                         !.prev = c.config,
                                         !.ret = c.config]]

\* ------------------------------------------- preflight_validator.py
\* The checks of validate_all, in its order.
Checks == <<"environment", "dependencies", "database", "modbus", "gmail",
            "ml_models", "file_permissions", "disk_space">>
CheckNames == {Checks[i] : i \in 1..Len(Checks)}

\* The checks whose result carries 'critical': False.
AdvisoryChecks == {"modbus", "disk_space"}

\* What each check does: it passes, it fails, or it raises. The two advisory
\* checks catch every exception themselves.
CheckOutcomes ==
    {o \in [CheckNames -> {"pass", "fail", "raise"}] :
        \A c \in AdvisoryChecks : o[c] # "raise"}

\* The critical checks that did not pass, in order.
FailedCritical(o) ==
    SelectSeq(Checks, LAMBDA c : o[c] = "raise" \/ (o[c] = "fail" /\ c \notin AdvisoryChecks))

\* The advisory checks that did not pass, in order.
FailedAdvisory(o) ==
    SelectSeq(Checks, LAMBDA c : o[c] = "fail" /\ c \in AdvisoryChecks)

\* PreflightValidator.validate_all(), as its text reads.
validate_all(o) ==
    [phase |-> "done", runs |-> 1, outcomes |-> o,
     overall_success |-> Len(FailedCritical(o)) = 0,
     critical_failures |-> FailedCritical(o),
     warnings |-> FailedAdvisory(o)]

\* Whether Python compiles the module: its method bodies from
\* _validate_database on are indented by 3, 7, 11 columns inside a class
\* body indented by 4, and line 169 dedents to a level no enclosing block
\* has (IndentationError at import).
PreflightCompiles == FALSE

NoPreflight == [phase |-> "none", runs |-> 0, outcomes |-> [c \in CheckNames |-> "pass"],
                overall_success |-> FALSE, critical_failures |-> <<>>, warnings |-> <<>>]

\* validate_all() as its text reads, on an instance that may have run it
\* before: the results map is overwritten entry by entry, the two lists of
\* the instance are appended to.
validate_all_on(p, o) ==
    LET critical_failures == p.critical_failures \o FailedCritical(o)
    IN [phase |-> "done", runs |-> p.runs + 1, outcomes |-> o,
        overall_success |-> Len(critical_failures) = 0,
        critical_failures |-> critical_failures,
        warnings |-> p.warnings \o FailedAdvisory(o)]

\* The runs followed on one instance: everything passes but, possibly, one
\* critical check that fails, one that raises and one advisory check.
RepeatOutcomes ==
    {o \in CheckOutcomes :
        /\ \A c \in CheckNames \ {"database", "modbus", "gmail"} : o[c] = "pass"
        /\ o["database"] # "raise"
        /\ o["gmail"] # "fail"}

\* import preflight_validator; run_preflight_checks()
run_preflight_checks(o) ==
    IF PreflightCompiles
    THEN validate_all(o)
    ELSE [NoPreflight EXCEPT !.phase = "IndentationError", !.outcomes = o]

\* ------------------------------------------- hardened_ml_models.py
\* A dataset file: whether it exists and has both required columns, its
\* rows, the rows with no email_text and with no type, the distinct category
\* values that occur, and its SHA-256.
Dataset(exists, columns, rows, empty_text, empty_type, categories, hash) ==
    [exists |-> exists, columns |-> columns, rows |-> rows, empty_text |-> empty_text,
     empty_type |-> empty_type, categories |-> categories, hash |-> hash]

Datasets ==
    {Dataset(TRUE, TRUE, 60, 1, 0, 3, "h1"),     \* sound
     Dataset(TRUE, TRUE, 60, 1, 0, 3, "h2"),     \* sound, other content
     Dataset(TRUE, TRUE, 50, 5, 5, 2, "h1"),     \* exactly at every limit
     Dataset(FALSE, TRUE, 60, 1, 0, 3, "h1"),    \* no file
     Dataset(TRUE, FALSE, 60, 1, 0, 3, "h1"),    \* a required column is absent
     Dataset(TRUE, TRUE, 49, 0, 0, 3, "h1"),     \* too few rows
     Dataset(TRUE, TRUE, 60, 57, 0, 3, "h1"),    \* 95% of email_text missing
     Dataset(TRUE, TRUE, 50, 0, 6, 3, "h1"),     \* 12% of type missing
     Dataset(TRUE, TRUE, 60, 0, 0, 1, "h1"),     \* one category
     Dataset(TRUE, TRUE, 60, 0, 3, 1, "h1")}     \* one category, some types missing

\* len(df['type'].unique()): NaN is one of the values unique() returns.
UniqueTypes(d) == d.categories + (IF d.empty_type > 0 THEN 1 ELSE 0)

\* _validate_dataset: (validation_passed, stats); error is the stats' 'error'
\* entry, "none" when the dictionary has no such entry.
validate_dataset(d) ==
    IF ~d.exists THEN [passed |-> FALSE, error |-> "Dataset file not found"]
    ELSE IF ~d.columns THEN [passed |-> FALSE, error |-> "Missing columns"]
    ELSE [passed |-> /\ d.rows >= MIN_ROWS
                     /\ d.empty_text * 100 <= MAX_EMPTY_PCT * d.rows
                     /\ d.empty_type * 100 <= MAX_EMPTY_PCT * d.rows
                     /\ UniqueTypes(d) >= 2,
          error |-> "none"]

\* model_metadata.json: the dataset hash and whether every model's recorded
\* train_accuracy reaches the threshold; NoMeta is the empty dictionary.
Meta(hash, accurate) == [present |-> TRUE, hash |-> hash, accurate |-> accurate]
NoMeta == [present |-> FALSE, hash |-> "", accurate |-> FALSE]

\* _models_need_retraining on the instance's model_metadata.
models_need_retraining(model_metadata, dataset_hash) ==
    IF ~model_metadata.present THEN TRUE
    ELSE IF model_metadata.hash # dataset_hash THEN TRUE
    ELSE ~model_metadata.accurate

\* A manager after __init__ beside an empty cache directory; no call yet.
NoMlCall == [op |-> "none", ok |-> TRUE, reason |-> "none", force |-> FALSE,
             dataset |-> Dataset(TRUE, TRUE, 60, 1, 0, 3, "h1"),
             cached |-> NoMeta, trained |-> FALSE]
NewMl == [disk |-> NoMeta, model_metadata |-> NoMeta, is_initialized |-> FALSE,
          trainings |-> 0, disk_run |-> 0, vectorizer |-> 0, models |-> 0,
          call |-> NoMlCall]

\* Where a training run raises: nowhere, before the vectorizer is fitted
\* (read_csv, train_test_split), in or after _train_models ("No models
\* were successfully trained"), or in _save_models.
TrainFaults == {"none", "split", "train", "save"}

\* initialize(force_retrain) on dataset d; accurate says whether a training
\* run reaches the accuracy threshold with every model, fault where it
\* raises. _load_models() succeeds when the cache directory holds the
\* artifacts, and reads vectorizer, models and metadata into the instance.
\* vectorizer and models name the training run the objects come from (0:
\* none); self.vectorizer is assigned when it is fitted, self.models only
\* after _save_models(), and the except clause resets nothing.
ml_initialize(m, force_retrain, d, accurate, fault) ==
    LET v == validate_dataset(d)
        called(ok, reason, trained) ==
            [op |-> "initialize", ok |-> ok, reason |-> reason, force |-> force_retrain,
             dataset |-> d, cached |-> m.disk, trained |-> trained]
        need_retraining == force_retrain \/ models_need_retraining(m.model_metadata, d.hash)
        run == m.trainings + 1
    IN IF ~v.passed
       THEN [m EXCEPT !.call = called(FALSE, IF v.error # "none" THEN v.error
                                             ELSE "Unknown error", FALSE)]
       ELSE IF ~need_retraining /\ m.disk.present
       THEN [m EXCEPT !.model_metadata = m.disk,
                      !.vectorizer = m.disk_run,
                      !.models = m.disk_run,
                      !.is_initialized = TRUE,
                      !.call = called(TRUE, "none", FALSE)]
       ELSE IF fault = "split"
       THEN [m EXCEPT !.trainings = run,
                      !.call = called(FALSE, "training failed", FALSE)]
       ELSE IF fault \in {"train", "save"}
       THEN [m EXCEPT !.trainings = run,
                      !.vectorizer = run,
                      !.call = called(FALSE, "training failed", FALSE)]
       ELSE [m EXCEPT !.trainings = run,
                      !.disk = Meta(d.hash, accurate),
                      !.disk_run = run,
                      !.model_metadata = Meta(d.hash, accurate),
                      !.vectorizer = run,
                      !.models = run,
                      !.is_initialized = TRUE,
                      !.call = called(TRUE, "none", TRUE)]

\* ------------------------------------------- secure_gmail.py
\* OAuth2 credentials: whether an access token and a refresh token are
\* held, and the expiry as whole hours from now on the UTC clock (the
\* library keeps expiry as a naive UTC datetime); has_expiry false is
\* expiry None.
Creds(token, refresh_token, has_expiry, expiry) ==
    [token |-> token, refresh_token |-> refresh_token,
     has_expiry |-> has_expiry, expiry |-> expiry]
NoCreds == Creds(FALSE, FALSE, FALSE, 0)

\* Hours to expiry that occur: expired an hour ago, one hour left, two left.
Expiries == {-1, 1, 2}
\* Lifetime in hours of a token the server issues.
Lifetimes == {1, 2}
\* datetime.now() minus the UTC clock, in hours, on the host.
TzOffsets == {-5, 0, 3}

StoredCreds ==
    {Creds(t, r, TRUE, e) : t \in BOOLEAN, r \in BOOLEAN, e \in Expiries}
        \cup {Creds(TRUE, TRUE, FALSE, 0), Creds(TRUE, FALSE, FALSE, 0)}

\* credentials.expired and credentials.valid of the library.
expired(c) == c.has_expiry /\ c.expiry <= 0
valid(c) == c.token /\ ~expired(c)

\* _needs_refresh: expiry <= datetime.now() + refresh_threshold_hours, with
\* datetime.now() the local wall clock.
needs_refresh(c, tz) ==
    c.has_expiry /\ c.expiry <= tz + REFRESH_THRESHOLD_HOURS

\* The token file: absent, or what _save_credentials wrote (token,
\* refresh_token and expiry as text, encrypted when the writer had a
\* key), or a file that does not parse.
NoFile == [exists |-> FALSE, encrypted |-> FALSE, parses |-> TRUE, data |-> NoCreds]

\* _save_credentials
save_credentials(cipher, c) ==
    [exists |-> TRUE, encrypted |-> cipher, parses |-> TRUE,
     data |-> [token |-> c.token, refresh_token |-> c.refresh_token,
               has_expiry |-> c.has_expiry, expiry |-> c.expiry]]

\* _load_credentials: [found, creds]; None for no file, for an encrypted
\* file without a key, and for any file that fails to parse.
load_credentials(t) ==
    IF ~t.file.exists THEN [found |-> FALSE, creds |-> NoCreds]
    ELSE IF t.file.encrypted /\ ~t.cipher THEN [found |-> FALSE, creds |-> NoCreds]
    ELSE IF ~t.file.parses THEN [found |-> FALSE, creds |-> NoCreds]
    ELSE [found |-> TRUE,
          creds |-> Creds(t.file.data.token, t.file.data.refresh_token,
                          t.file.data.has_expiry, t.file.data.expiry)]

NoTokCall == [op |-> "none", path |-> "none", found |-> FALSE, loaded |-> NoCreds,
              tz |-> 0, ret |-> NoCreds, saved |-> FALSE]
NewTok == [file |-> NoFile, cipher |-> FALSE, call |-> NoTokCall]

\* _refresh_credentials: credentials.refresh() then _save_credentials();
\* either may raise. The library's refresh needs a refresh token.
refresh_credentials(t, c, refresh_ok, save_ok, life) ==
    LET fresh == Creds(TRUE, c.refresh_token, TRUE, life)
    IN IF c.refresh_token /\ refresh_ok /\ save_ok
       THEN [raised |-> FALSE, creds |-> fresh, file |-> save_credentials(t.cipher, fresh)]
       ELSE [raised |-> TRUE, creds |-> c, file |-> t.file]

\* _authenticate; path tells which branch returned, "raised" that an
\* exception left the function.
authenticate(t, tz, refresh_ok, save_ok, flow_ok, life, flow_refresh_token) ==
    LET l == load_credentials(t)
        c == l.creds
        called(path, ret, saved) ==
            [op |-> "authenticate", path |-> path, found |-> l.found, loaded |-> c,
             tz |-> tz, ret |-> ret, saved |-> saved]
        r == refresh_credentials(t, c, refresh_ok, save_ok, life)
        new == Creds(TRUE, flow_refresh_token, TRUE, life)
        flow == IF flow_ok /\ save_ok
                THEN [t EXCEPT !.file = save_credentials(t.cipher, new),
                               !.call = called("flow", new, TRUE)]
                ELSE [t EXCEPT !.call = called("raised", NoCreds, FALSE)]
    IN IF l.found /\ valid(c)
       THEN IF needs_refresh(c, tz)
            THEN IF r.raised
                 THEN [t EXCEPT !.call = called("raised", NoCreds, FALSE)]
                 ELSE [t EXCEPT !.file = r.file, !.call = called("refreshed", r.creds, TRUE)]
            ELSE [t EXCEPT !.call = called("stored", c, FALSE)]
       ELSE IF l.found /\ expired(c) /\ c.refresh_token /\ ~r.raised
       THEN [t EXCEPT !.file = r.file, !.call = called("refreshed", r.creds, TRUE)]
       ELSE flow

\* ------------------------------------------- decisions.py
\* Text is a sequence of characters.
Whitespace == {" ", "\t", "\n"}
UpperLetters == <<"A", "C", "G", "H", "I", "L", "M", "R", "T">>
LowerLetters == <<"a", "c", "g", "h", "i", "l", "m", "r", "t">>

\* str.lower() on one character
LowerChar(ch) ==
    IF \E i \in DOMAIN UpperLetters : UpperLetters[i] = ch
    THEN LowerLetters[CHOOSE i \in DOMAIN UpperLetters : UpperLetters[i] = ch]
    ELSE ch

lower(text) == [i \in DOMAIN text |-> LowerChar(text[i])]

RECURSIVE lstrip(_)
lstrip(text) ==
    IF text # <<>> /\ Head(text) \in Whitespace THEN lstrip(Tail(text)) ELSE text

RECURSIVE rstrip(_)
rstrip(text) ==
    IF text # <<>> /\ text[Len(text)] \in Whitespace
    THEN rstrip(SubSeq(text, 1, Len(text) - 1)) ELSE text

strip(text) == rstrip(lstrip(text))

\* An entry of the prediction mapping: absent, None, or a string.
Absent == [kind |-> "absent", text |-> <<>>]
None == [kind |-> "none", text |-> <<>>]
Str(text) == [kind |-> "str", text |-> text]

Texts ==
    {<<>>, <<" ">>,
     <<"a", "l", "a", "r", "m">>, <<"A", "l", "a", "r", "m">>,
     <<" ", "A", "L", "A", "R", "M", "\n">>, <<"a", "l", "a", "r", "m", "s">>,
     <<"a", "l", " ", "a", "r", "m">>, <<"I", "n", "f", "o">>,
     <<"h", "i", "g", "h">>, <<"H", "i", "g", "h">>, <<"\t", "h", "i", "g", "h", " ">>,
     <<"c", "r", "i", "t", "i", "c", "a", "l">>,
     <<"C", "R", "I", "T", "I", "C", "A", "L">>,
     <<"L", "o", "w">>}
Entries == {Absent, None} \cup {Str(t) : t \in Texts}

SEVERITY_HIGH == {<<"h", "i", "g", "h">>, <<"c", "r", "i", "t", "i", "c", "a", "l">>}
CATEGORY_ALARM == <<"a", "l", "a", "r", "m">>

\* _norm(v) with v = pred.get(key, ""): (v or "").strip().lower()
norm_NoStrip(v) == lower(IF v.kind = "str" THEN v.text ELSE <<>>)

norm(v) == lower(strip(IF v.kind = "str" THEN v.text ELSE <<>>))

\* should_sound_buzzer(pred)
should_sound_buzzer(pred) ==
    LET severity == norm(pred.severity)
        category == norm(pred.category)
    IN category = CATEGORY_ALARM /\ severity \in SEVERITY_HIGH

\* process_email: prediction.lower() == 'alarm' on a string label
live_alarm_check_Exact(prediction) == prediction = <<"a", "l", "a", "r", "m">>

live_alarm_check(prediction) == lower(prediction) = <<"a", "l", "a", "r", "m">>

NoDecision == [op |-> "none", pred |-> [category |-> Absent, severity |-> Absent],
               ret |-> FALSE]

\* ------------------------------------------- the polling loops' sleeps
\* How one pass of the while loop ends: the try body completes, an
\* exception reaches the loop's except clause, or (final.py) the Gmail
\* client is missing and cannot be re-created.
CycleEnds == {"completed", "error", "no_gmail"}

RECURSIVE Sum(_)
Sum(sleeps) == IF sleeps = <<>> THEN 0 ELSE Head(sleeps) + Sum(Tail(sleeps))

\* The time.sleep() calls between the end of a pass and the next one.
cycle_sleeps(m, end) ==
    CASE m = "minimal" -> <<POLL_INTERVAL>>
      [] end = "no_gmail" -> <<ERROR_SLEEP>>
      [] end = "error" -> <<ERROR_SLEEP, EMAIL_CHECK_INTERVAL>>
      [] OTHER -> <<EMAIL_CHECK_INTERVAL>>

NoNap == [end |-> "none", sleeps |-> <<>>, clock |-> 0]

\* ------------------------------------------- mysql_insert.py connections
\* After the import: the module-level connection was opened and closed
\* again (cursor.close(), cnx.close() at the end of the module).
NoConn == [op |-> "none", opened |-> 0, open |-> 0, closed |-> 0, ok |-> TRUE]

\* insert_mysql: connect(), cursor(), execute(), commit(), return. The
\* function never calls close(); executed says whether execute and commit
\* went through or raised.
insert_mysql_connection(c, executed) ==
    [op |-> "insert", opened |-> c.opened + 1, open |-> c.open + 1,
     closed |-> c.closed, ok |-> executed]

\* The threads of app.py outside the functions that touch the counters.
PollIdle == [at |-> "idle", pred |-> "none", tmp |-> 0]
ReqIdle == [at |-> "idle", counts |-> ZeroStats]
StatIdle == [at |-> "idle", total |-> 0, alarms |-> 0]
NoSnap == [taken |-> FALSE, total_today |-> 0, alarms_today |-> 0, info_today |-> 0]

\* The counter process_email increments after total_today.
CategoryField(prediction) ==
    IF Lower(prediction) = "alarm" THEN "alarms_today" ELSE "info_today"

\* ------------------------------------------------------------ start
\* The latest buzzer-control call: which one, the duration passed, what it
\* returned, and how many deactivation threads were waiting when it was made.
Call(op, d, ok) == [op |-> op, d |-> d, ok |-> ok, pending |-> Len(threads)]

\* A row an earlier run of the program left in the table today.
PriorRow == [msg |-> 0, len |-> 40, category |-> "Alarm"]

\* Outside a cycle there is nothing to compare with.
NoCycle == [stats |-> ZeroStats, faults |-> 0, size |-> 0]

Init ==
    /\ mode \in Modes
    /\ pc = "boot"
    /\ running = TRUE
    /\ gmail = FALSE
    /\ server = "None"
    /\ hregs = FreshRegs
    /\ modbus_ok = FALSE
    /\ buzzer_active = FALSE
    /\ active_timer = "None"
    /\ threads = <<>>
    /\ lastCall = [op |-> "none", d |-> 0, ok |-> TRUE, pending |-> 0]
    /\ arrived = 0
    /\ inbox = <<>>
    /\ listing = <<>>
    /\ pass = NoEffect
    /\ faults \in {<<>>, <<PriorRow>>}
    /\ email_stats = ZeroStats
    /\ cycleBase = NoCycle
    /\ ballot = NoBallot
    /\ logs = <<>>
    /\ logged = 0
    /\ exit_code = NoExit
    /\ restart_count = 0
    /\ execs = 0
    /\ lock = "free"
    /\ poll = PollIdle
    /\ req = ReqIdle
    /\ stat = StatIdle
    /\ snap = NoSnap
    /\ dash = NewDash
    /\ cfg = NewCfg
    /\ pre = NoPreflight
    /\ ml = NewMl
    /\ tok = NewTok
    /\ dec = NoDecision
    /\ nap = NoNap
    /\ conn = NoConn

\* app.py main() with the outcomes of initialize(), get_db_connection() and
\* the polling loop's Gmail(): initialize_system(), sys.exit(1) when it
\* fails, and cleanup_and_exit() in the finally clause.
AppMainWith(outcome, dbUp, gmailOk) ==
    LET b == initialize(BZ, outcome)
        initOk == b.ret \/ dbUp
        up == initOk /\ gmailOk
    IN /\ SetBZ(IF up THEN b ELSE cleanup(b))
       /\ email_stats' = update_email_stats_from_db(email_stats, faults, dbUp)
       /\ gmail' = up
       /\ pc' = IF up THEN "idle" ELSE "exited"
       /\ exit_code' = IF up THEN NoExit
                       ELSE finally_exit(IF initOk THEN NoExit ELSE 1, 0)

\* app.py main(): initialize_system(), then the polling loop's Gmail().
\* A failed start and a failed Gmail() both end in cleanup_and_exit().
AppMain ==
    /\ mode = "integrated"
    /\ pc = "boot"
    /\ \E outcome \in InitOutcomes, dbUp \in BOOLEAN, gmailOk \in BOOLEAN :
        AppMainWith(outcome, dbUp, gmailOk)
    /\ UNCHANGED <<mode, sideVars, ballot, logVars, storeVars, restart_count, execs, running, lastCall,
                   mailVars, faults, cycleBase>>

\* initialize_modbus() of final.py: a new server, started; no register is written.
initialize_modbus(b, outcome) ==
    CASE outcome = "ok" -> [b EXCEPT !.server = "running", !.hregs = FreshRegs, !.ret = TRUE]
      [] outcome = "start_fail" ->
            [b EXCEPT !.server = "stopped", !.hregs = FreshRegs, !.ret = FALSE]
      [] OTHER -> [b EXCEPT !.ret = FALSE]

\* check_modbus_health()
check_modbus_health(b) == [b EXCEPT !.modbus_ok = (b.server = "running")]

\* restart_failed_components(), the field-bus part: stop, construct, start.
restart_modbus(b, outcome) ==
    IF b.modbus_ok
    THEN b
    ELSE LET stopped == [b EXCEPT !.server = IF @ = "None" THEN "None" ELSE "stopped"]
         IN initialize_modbus(stopped, outcome)

\* perform_health_check that restarts components only when the database is down.
perform_health_check_DbOnly(b, dbUp, outcome) ==
    LET b1 == check_modbus_health(b)
    IN IF ~dbUp
       THEN [b |-> restart_modbus(b1, outcome), restarted |-> ~b1.modbus_ok]
       ELSE [b |-> [b1 EXCEPT !.ret = TRUE], restarted |-> FALSE]

\* perform_health_check(): the health flags, then restart_failed_components()
\* when the database or the field bus is unhealthy; restarted says whether
\* the field-bus restart was entered.
perform_health_check(b, dbUp, outcome) ==
    LET b1 == check_modbus_health(b)
    IN IF ~(dbUp /\ b1.modbus_ok)
       THEN [b |-> restart_modbus(b1, outcome), restarted |-> ~b1.modbus_ok]
       ELSE [b |-> [b1 EXCEPT !.ret = TRUE], restarted |-> FALSE]

\* final.py main(): initialize_system() with its first health check; with
\* fewer than two of the three components up the process re-executes itself.
FinalMain ==
    /\ mode = "decoupled"
    /\ pc = "boot"
    /\ \E outcome \in InitOutcomes, again \in InitOutcomes,
          dbUp \in BOOLEAN, gmailOk \in BOOLEAN :
        LET b1 == check_modbus_health(initialize_modbus(BZ, outcome))
            n == (IF b1.modbus_ok THEN 1 ELSE 0) + (IF gmailOk THEN 1 ELSE 0)
                 + (IF dbUp THEN 1 ELSE 0)
            b2 == IF dbUp /\ b1.modbus_ok THEN b1 ELSE restart_modbus(b1, again)
        IN IF n >= 2
           THEN /\ SetBZ(b2)
                /\ gmail' = gmailOk
                /\ email_stats' = update_email_stats_from_db(email_stats, faults, dbUp)
                /\ pc' = "idle"
           ELSE /\ UNCHANGED <<buzzVars, gmail, email_stats, pc>>
    /\ UNCHANGED <<mode, sideVars, ballot, logVars, storeVars, startVars, running, lastCall, mailVars, faults, cycleBase>>

\* initialize_system() of final.py: how many of the three components came up.
success_count(b, gmailOk, dbUp) ==
    (IF b.modbus_ok THEN 1 ELSE 0) + (IF gmailOk THEN 1 ELSE 0) + (IF dbUp THEN 1 ELSE 0)

\* final.py main() when initialize_system() fails. os.execv replaces the
\* process image: the module is imported anew and system_state is a new
\* SystemState() with restart_count = 0. An os.execv that raises is caught by
\* main's except clause, which counts and re-executes once more; what leaves
\* main ends in cleanup_and_exit().
FinalRestart ==
    /\ mode = "decoupled"
    /\ pc = "boot"
    /\ execs < MaxExecs
    /\ \E outcome \in InitOutcomes, dbUp \in BOOLEAN, gmailOk \in BOOLEAN,
          exec1 \in BOOLEAN, exec2 \in BOOLEAN :
        LET b1 == check_modbus_health(initialize_modbus(BZ, outcome))
            first == restart_count < MAX_RESTART_ATTEMPTS
            second == first /\ ~exec1 /\ restart_count + 1 < MAX_RESTART_ATTEMPTS
            replaced == (first /\ exec1) \/ (second /\ exec2)
            counted == restart_count + (IF first THEN 1 ELSE 0) + (IF second THEN 1 ELSE 0)
        IN /\ success_count(b1, gmailOk, dbUp) < 2
           /\ IF replaced
              THEN /\ execs' = execs + 1
                   /\ restart_count' = 0
                   /\ UNCHANGED <<buzzVars, email_stats, pc, exit_code>>
              ELSE /\ execs' = execs
                   /\ restart_count' = counted
                   /\ SetBZ(final_cleanup(b1))
                   /\ email_stats' = update_email_stats_from_db(email_stats, faults, dbUp)
                   /\ pc' = "exited"
                   /\ exit_code' = finally_exit(IF first THEN NoExit ELSE 1, 0)
    /\ UNCHANGED <<mode, sideVars, ballot, logVars, storeVars, running, gmail, lastCall, mailVars, faults, cycleBase>>

\* ims.py at import: the server object, the thread that starts it, the flag
\* register set to OFF, the Gmail client.
ImsImport ==
    /\ mode = "minimal"
    /\ pc = "boot"
    /\ \E started \in BOOLEAN, gmailOk \in BOOLEAN :
        /\ server' = IF started THEN "running" ELSE "stopped"
        /\ hregs' = set_holding_registers(FreshRegs, MODBUS_REGISTER, <<BUZZER_SIGNAL_OFF>>)
        /\ gmail' = gmailOk
        /\ pc' = IF gmailOk THEN "idle" ELSE "exited"
        /\ exit_code' = IF gmailOk THEN NoExit ELSE 1
    /\ UNCHANGED <<mode, sideVars, ballot, logVars, storeVars, restart_count, execs, running, modbus_ok, buzzer_active, active_timer, threads,
                   lastCall, mailVars, dbVars>>

Alive == pc \in {"idle", "listing"}

\* ------------------------------------------------------------ environment
\* A notification arrives in the mailbox (seen by the next fetch).
Arrive ==
    /\ pc = "idle"
    /\ arrived < MaxInbox
    /\ arrived' = arrived + 1
    /\ \E c \in Arrivals : inbox' = Append(inbox, Message(arrived + 1, c))
    /\ UNCHANGED <<procVars, buzzVars, lastCall, listing, pass, dbVars>>

\* The field-bus server stops running on its own (is_run turns false).
ServerStops ==
    /\ Alive
    /\ server = "running"
    /\ server' = "stopped"
    /\ UNCHANGED <<procVars, hregs, modbus_ok, buzzer_active, active_timer, threads,
                   lastCall, mailVars, dbVars>>

\* TickLen seconds pass for every thread that is waiting.
Tick ==
    /\ Alive
    /\ \E i \in 1..Len(threads) : threads[i].on /\ threads[i].rem > 0
    /\ threads' = [i \in 1..Len(threads) |->
                      IF threads[i].on
                      THEN [threads[i] EXCEPT !.rem = Max(0, @ - TickLen)]
                      ELSE threads[i]]
    /\ UNCHANGED <<procVars, server, hregs, modbus_ok, buzzer_active, active_timer,
                   lastCall, mailVars, dbVars>>

\* ------------------------------------------------------------ polling loop
\* gmail.get_unread_inbox(): the unread messages, in mailbox order.
get_unread_inbox(box) == box

\* message.mark_as_read(): the message leaves the unread inbox.
mark_as_read(box, k) == SelectSeq(box, LAMBDA m : m.id # k)

\* What a cycle starts from: the counters, the rows of the table, and how
\* many messages the listing holds.
Snapshot == [stats |-> email_stats, faults |-> Len(faults), size |-> Len(inbox)]

\* Top of the while loop: (final.py: re-create a missing Gmail client,) fetch
\* the unread listing. A failure here is a loop-level error: log, sleep, retry.
Fetch ==
    /\ pc = "idle"
    /\ running
    /\ \E fetched \in BOOLEAN, gmailOk \in BOOLEAN :
        LET have == gmail \/ (mode = "decoupled" /\ gmailOk)
        IN /\ gmail' = have
           /\ listing' = IF have /\ fetched THEN get_unread_inbox(inbox) ELSE <<>>
           /\ pc' = IF have /\ fetched THEN "listing" ELSE "idle"
           /\ cycleBase' = IF have /\ fetched THEN Snapshot ELSE NoCycle
    /\ pass' = NoEffect
    /\ UNCHANGED <<mode, sideVars, ballot, logVars, storeVars, startVars, running, buzzVars, lastCall, arrived, inbox, faults, email_stats>>

\* One pass of the for loop over the listing: its next message. An exception
\* that leaves the loop (ims.py) skips what is left of the listing.
ProcessMessage ==
    /\ pc = "listing"
    /\ running
    /\ listing # <<>>
    /\ Len(faults) < MaxFaults
    /\ Len(threads) < MaxThreads
    /\ \E f \in FailSites, dbUp \in BOOLEAN :
        LET k == Head(listing).id
            e == HandleMessage(mode, Head(listing), f, dbUp)
            b == IF e.activate THEN Activate(mode, BZ) ELSE BZ
        IN /\ faults' = IF e.insert THEN insert_mysql(faults, k, e.desc, e.pred) ELSE faults
           /\ email_stats' = IF e.counted THEN BumpStats(email_stats, e.pred) ELSE email_stats
           /\ SetBZ(b)
           /\ lastCall' = IF e.activate
                          THEN Call("activate", IF mode = "minimal" THEN MINIMAL_DURATION
                                                ELSE BUZZER_DURATION, b.ret)
                          ELSE lastCall
           /\ inbox' = IF e.read THEN mark_as_read(inbox, k) ELSE inbox
           /\ pass' = e
           /\ listing' = IF e.abort THEN listing ELSE Tail(listing)
           /\ pc' = IF e.abort THEN "idle" ELSE "listing"
           /\ cycleBase' = IF e.abort THEN NoCycle ELSE cycleBase
    /\ UNCHANGED <<mode, sideVars, ballot, logVars, storeVars, startVars, running, gmail, arrived>>

\* After the for loop: re-derive the counters from the table, then sleep.
EndCycle ==
    /\ pc = "listing"
    /\ listing = <<>>
    /\ \E dbUp \in BOOLEAN :
        email_stats' = IF mode = "minimal" THEN email_stats
                       ELSE update_email_stats_from_db(email_stats, faults, dbUp)
    /\ pc' = "idle"
    /\ pass' = NoEffect
    /\ cycleBase' = NoCycle
    /\ UNCHANGED <<mode, sideVars, ballot, logVars, storeVars, startVars, running, gmail, buzzVars, lastCall, arrived, inbox, listing, faults>>

\* ------------------------------------------------------------ timers
\* app.py auto_deactivate: the Timer thread i calls deactivate_buzzer().
auto_deactivate ==
    /\ mode = "integrated"
    /\ Alive
    /\ \E i \in 1..Len(threads) :
        /\ threads[i].rem = 0
        /\ LET b == deactivate_buzzer([BZ EXCEPT !.threads = RemoveAt(@, i)])
           IN SetBZ(b)
    /\ UNCHANGED <<procVars, lastCall, mailVars, dbVars>>

\* app.py: the wait of Timer thread i is over and the thread begins to call
\* auto_deactivate; from here on cancel() through active_timer, which may
\* still refer to it, no longer stops it.
timer_fires ==
    /\ mode = "integrated"
    /\ Alive
    /\ \E i \in 1..Len(threads) :
        /\ threads[i].rem = 0
        /\ threads[i].ref
        /\ threads' = [threads EXCEPT ![i].ref = FALSE]
    /\ UNCHANGED <<procVars, server, hregs, modbus_ok, buzzer_active, active_timer,
                   lastCall, mailVars, dbVars>>

\* final.py deactivate_after_delay: thread i wakes up.
deactivate_after_delay ==
    /\ mode = "decoupled"
    /\ Alive
    /\ \E i \in 1..Len(threads) :
        /\ threads[i].rem = 0
        /\ SetBZ(final_deactivate_after_delay(BZ, i))
    /\ UNCHANGED <<procVars, lastCall, mailVars, dbVars>>

\* ims.py signal_buzzer: thread i writes ON, or wakes up and writes OFF.
signal_buzzer ==
    /\ mode = "minimal"
    /\ Alive
    /\ \E i \in 1..Len(threads) :
        \/ /\ ~threads[i].on
           /\ SetBZ(signal_buzzer_on(BZ, i))
        \/ /\ threads[i].on
           /\ threads[i].rem = 0
           /\ SetBZ(signal_buzzer_off(BZ, i))
    /\ UNCHANGED <<procVars, lastCall, mailVars, dbVars>>

\* ------------------------------------------------------------ dashboard
\* POST /api/test-buzzer {duration}
test_buzzer_api ==
    /\ mode = "integrated"
    /\ Alive
    /\ Len(threads) < MaxThreads
    /\ \E d \in TestDurations :
        LET b == test_buzzer(BZ, d)
        IN /\ SetBZ(b)
           /\ lastCall' = Call("test", d, b.ret)
    /\ UNCHANGED <<procVars, mailVars, dbVars>>

\* POST /api/stop-buzzer
stop_buzzer_api ==
    /\ mode = "integrated"
    /\ Alive
    /\ LET b == deactivate_buzzer(BZ)
       IN /\ SetBZ(b)
          /\ lastCall' = Call("deactivate", 0, b.ret)
    /\ UNCHANGED <<procVars, mailVars, dbVars>>

\* A start-system that initializes the buzzer controller whatever the flag says.
start_system_buzzer_Always(b, outcome) == initialize(b, outcome)

\* start_system_api: buzzer_controller.initialize() if the modbus flag is not set.
start_system_buzzer(b, outcome) == IF ~b.modbus_ok THEN initialize(b, outcome) ELSE b

\* POST /api/start-system
start_system_api ==
    /\ mode = "integrated"
    /\ Alive
    /\ running' = TRUE
    /\ \E outcome \in InitOutcomes : SetBZ(start_system_buzzer(BZ, outcome))
    /\ UNCHANGED <<mode, sideVars, ballot, logVars, storeVars, startVars, pc, gmail, lastCall, mailVars, dbVars>>

\* ------------------------------------------------------------ shutdown
\* SIGINT / SIGTERM / SIGHUP: signal_handler, cleanup_and_exit.
signal_handler ==
    /\ mode \in {"integrated", "decoupled"}
    /\ Alive
    /\ running' = FALSE
    /\ pc' = "exited"
    /\ LET b == IF mode = "integrated" THEN cleanup(BZ) ELSE final_cleanup(BZ)
       IN /\ SetBZ(b)
          /\ lastCall' = Call("cleanup", 0, TRUE)
    /\ exit_code' = 0
    /\ UNCHANGED <<mode, sideVars, ballot, logVars, storeVars, restart_count, execs, gmail, mailVars, dbVars>>

\* process_email reaching its alarm branch (app.py 339-341, final.py 583-586,
\* ims.py 118-120), seen from the buzzer control: one default activation.
alarm_activation ==
    /\ Alive
    /\ running
    /\ Len(threads) < MaxThreads
    /\ LET b == Activate(mode, BZ)
       IN /\ SetBZ(b)
          /\ lastCall' = Call("activate", IF mode = "minimal" THEN MINIMAL_DURATION
                                         ELSE BUZZER_DURATION, b.ret)
    /\ UNCHANGED <<procVars, mailVars, dbVars>>

\* ------------------------------------------------------------ state store
\* The threads of app.py at the counters of system_state.email_stats, one
\* statement (one read or one write of a counter) at a time.

\* process_email in the polling thread: the insert, total_today += 1, the
\* category counter += 1 (each a read, then a write), then the activation on
\* an alarm. No statement of it takes system_state._lock.
ProcessEmailStep ==
    /\ mode = "integrated"
    /\ pc = "idle"
    /\ CASE poll.at = "idle" ->
              /\ arrived < MaxInbox
              /\ arrived' = arrived + 1
              /\ \E prediction \in {"Alarm", "Information"} :
                    /\ faults' = insert_mysql(faults, arrived + 1, 40, prediction)
                    /\ poll' = [at |-> "load_total", pred |-> prediction, tmp |-> 0]
              /\ UNCHANGED <<email_stats, buzzVars, lastCall>>
         [] poll.at = "load_total" ->
              /\ poll' = [poll EXCEPT !.at = "store_total", !.tmp = email_stats.total_today]
              /\ UNCHANGED <<arrived, faults, email_stats, buzzVars, lastCall>>
         [] poll.at = "store_total" ->
              /\ email_stats' = [email_stats EXCEPT !.total_today = poll.tmp + 1]
              /\ poll' = [poll EXCEPT !.at = "load_category"]
              /\ UNCHANGED <<arrived, faults, buzzVars, lastCall>>
         [] poll.at = "load_category" ->
              /\ poll' = [poll EXCEPT !.at = "store_category",
                                      !.tmp = email_stats[CategoryField(poll.pred)]]
              /\ UNCHANGED <<arrived, faults, email_stats, buzzVars, lastCall>>
         [] poll.at = "store_category" ->
              /\ email_stats' = [email_stats EXCEPT ![CategoryField(poll.pred)] = poll.tmp + 1]
              /\ poll' = [poll EXCEPT !.at = "react"]
              /\ UNCHANGED <<arrived, faults, buzzVars, lastCall>>
         [] OTHER ->
              /\ poll' = PollIdle
              /\ IF Lower(poll.pred) = "alarm"
                 THEN LET b == activate_buzzer(BZ, BUZZER_DURATION)
                      IN /\ SetBZ(b)
                         /\ lastCall' = Call("activate", BUZZER_DURATION, b.ret)
                 ELSE UNCHANGED <<buzzVars, lastCall>>
              /\ UNCHANGED <<arrived, faults, email_stats>>
    /\ UNCHANGED <<mode, sideVars, pc, running, gmail, ballot, logVars, startVars, lock, req, stat, snap,
                   inbox, listing, pass, cycleBase>>

\* update_email_stats_from_db in a dashboard request thread (/api/daily-alerts,
\* /api/export-alerts) with a connection: the COUNT queries, then the three
\* assignments, none of them under system_state._lock.
RefreshStep ==
    /\ mode = "integrated"
    /\ pc = "idle"
    /\ CASE req.at = "idle" ->
              /\ req' = [at |-> "total_today", counts |-> DbStats(faults)]
              /\ UNCHANGED email_stats
         [] req.at = "total_today" ->
              /\ email_stats' = [email_stats EXCEPT !.total_today = req.counts.total_today]
              /\ req' = [req EXCEPT !.at = "alarms_today"]
         [] req.at = "alarms_today" ->
              /\ email_stats' = [email_stats EXCEPT !.alarms_today = req.counts.alarms_today]
              /\ req' = [req EXCEPT !.at = "info_today"]
         [] OTHER ->
              /\ email_stats' = [email_stats EXCEPT !.info_today = req.counts.info_today]
              /\ req' = ReqIdle
    /\ UNCHANGED <<mode, sideVars, pc, running, gmail, ballot, logVars, startVars, lock, poll, stat, snap,
                   buzzVars, lastCall, mailVars, faults, cycleBase>>

\* SystemState.get_status_dict for /api/status: takes the lock, reads the
\* three counters one after the other, releases the lock.
StatusStep ==
    /\ mode = "integrated"
    /\ pc = "idle"
    /\ CASE stat.at = "idle" ->
              /\ lock = "free"
              /\ lock' = "status"
              /\ stat' = [StatIdle EXCEPT !.at = "total_today"]
              /\ UNCHANGED snap
         [] stat.at = "total_today" ->
              /\ stat' = [stat EXCEPT !.at = "alarms_today", !.total = email_stats.total_today]
              /\ UNCHANGED <<lock, snap>>
         [] stat.at = "alarms_today" ->
              /\ stat' = [stat EXCEPT !.at = "info_today", !.alarms = email_stats.alarms_today]
              /\ UNCHANGED <<lock, snap>>
         [] OTHER ->
              /\ snap' = [taken |-> TRUE, total_today |-> stat.total,
                          alarms_today |-> stat.alarms,
                          info_today |-> email_stats.info_today]
              /\ stat' = StatIdle
              /\ lock' = "free"
    /\ UNCHANGED <<mode, sideVars, pc, running, gmail, ballot, logVars, startVars, poll, req,
                   buzzVars, lastCall, mailVars, dbVars>>

\* ------------------------------------------------------------ health loop
\* One pass of health_monitoring_loop after its sleep: perform_health_check()
\* with the restarts it makes (an exception in the field-bus restart skips
\* the Gmail one), then update_email_stats().
HealthTick ==
    /\ mode = "decoupled"
    /\ Alive
    /\ running
    /\ \E dbUp \in BOOLEAN, outcome \in InitOutcomes, gmailOk \in BOOLEAN, dbLater \in BOOLEAN :
        LET h == perform_health_check(BZ, dbUp, outcome)
            entered == ~(dbUp /\ server = "running")
            raised == h.restarted /\ ~h.b.ret
        IN /\ SetBZ(h.b)
           /\ lastCall' = IF h.restarted THEN Call("restart", 0, h.b.ret)
                          ELSE Call("health", 0, TRUE)
           /\ gmail' = IF entered /\ ~raised /\ ~gmail THEN gmailOk ELSE gmail
           /\ email_stats' = update_email_stats_from_db(email_stats, faults, dbLater)
    /\ UNCHANGED <<mode, sideVars, pc, running, ballot, logVars, startVars, storeVars,
                   mailVars, faults, cycleBase>>

\* ------------------------------------------------------------ configuration
\* load_config() with a configuration file, an environment and a Gmail
\* client-secrets file that is there or not.
LoadConfig ==
    /\ cfg.loads < MaxLoads
    /\ \E file_exists \in BOOLEAN, env \in Envs, raw \in RawConfigs, secrets_exist \in BOOLEAN :
        cfg' = load_config(cfg, file_exists, env, raw, secrets_exist)
    /\ UNCHANGED <<mainVars, dash, pre, ml, tok, dec, nap, conn, buzzVars, lastCall, mailVars, dbVars>>

\* get_config()
GetConfig ==
    /\ cfg' = get_config(cfg)
    /\ UNCHANGED <<mainVars, dash, pre, ml, tok, dec, nap, conn, buzzVars, lastCall, mailVars, dbVars>>

\* ------------------------------------------------------------ preflight
\* A startup that imports the validator and runs its checks, once.
RunPreflight ==
    /\ pre.phase = "none"
    /\ \E o \in CheckOutcomes : pre' = run_preflight_checks(o)
    /\ UNCHANGED <<mainVars, dash, cfg, ml, tok, dec, nap, conn, buzzVars, lastCall, mailVars, dbVars>>

\* PreflightValidator.validate_all() on one instance, time after time.
ValidateAll ==
    /\ pre.phase \in {"none", "done"}
    /\ pre.runs < MaxRuns
    /\ \E o \in RepeatOutcomes : pre' = validate_all_on(pre, o)
    /\ UNCHANGED <<mainVars, dash, cfg, ml, tok, dec, nap, conn, buzzVars, lastCall, mailVars, dbVars>>

\* ------------------------------------------------------------ model manager
\* HardenedMLModels.initialize(force_retrain)
MlInitialize ==
    /\ ml.trainings < MaxTrainings
    /\ \E force_retrain \in BOOLEAN, d \in Datasets, accurate \in BOOLEAN,
          fault \in TrainFaults :
        ml' = ml_initialize(ml, force_retrain, d, accurate, fault)
    /\ UNCHANGED <<mainVars, dash, cfg, pre, tok, dec, nap, conn, buzzVars, lastCall, mailVars, dbVars>>

\* A new process, or a new HardenedMLModels(): the instance starts empty,
\* the cache directory keeps what was saved.
MlNewInstance ==
    /\ ml' = [ml EXCEPT !.model_metadata = NoMeta, !.is_initialized = FALSE,
                        !.vectorizer = 0, !.models = 0, !.call = NoMlCall]
    /\ UNCHANGED <<mainVars, dash, cfg, pre, tok, dec, nap, conn, buzzVars, lastCall, mailVars, dbVars>>

\* ------------------------------------------------------------ mail credentials
\* SecureGmailClient(..., encryption_key)
NewClient ==
    /\ \E key \in BOOLEAN : tok' = [tok EXCEPT !.cipher = key, !.call = NoTokCall]
    /\ UNCHANGED <<mainVars, dash, cfg, pre, ml, dec, nap, conn, buzzVars, lastCall, mailVars, dbVars>>

\* The operator installs, damages or removes the token file.
InstallTokenFile ==
    /\ \E c \in StoredCreds, encrypted \in BOOLEAN, how \in {"write", "damage", "remove"} :
        tok' = [tok EXCEPT !.file =
                    IF how = "remove" THEN NoFile
                    ELSE [save_credentials(encrypted, c) EXCEPT !.parses = how = "write"],
                           !.call = NoTokCall]
    /\ UNCHANGED <<mainVars, dash, cfg, pre, ml, dec, nap, conn, buzzVars, lastCall, mailVars, dbVars>>

\* SecureGmailClient._authenticate()
Authenticate ==
    /\ \E tz \in TzOffsets, refresh_ok \in BOOLEAN, save_ok \in BOOLEAN,
          flow_ok \in BOOLEAN, life \in Lifetimes, flow_refresh_token \in BOOLEAN :
        tok' = authenticate(tok, tz, refresh_ok, save_ok, flow_ok, life, flow_refresh_token)
    /\ UNCHANGED <<mainVars, dash, cfg, pre, ml, dec, nap, conn, buzzVars, lastCall, mailVars, dbVars>>

\* ------------------------------------------------------------ decision policy
\* should_sound_buzzer(pred) on a prediction mapping
Decide ==
    /\ \E category \in Entries, severity \in Entries :
        LET pred == [category |-> category, severity |-> severity]
        IN dec' = [op |-> "decide", pred |-> pred, ret |-> should_sound_buzzer(pred)]
    /\ UNCHANGED <<mainVars, dash, cfg, pre, ml, tok, nap, conn, buzzVars, lastCall, mailVars, dbVars>>

\* ------------------------------------------------------------ loop sleeps
\* One pass of the polling loop up to the start of the next one.
LoopCycle ==
    /\ \E end \in CycleEnds :
        /\ end = "no_gmail" => mode = "decoupled"
        /\ LET sleeps == cycle_sleeps(mode, end)
           IN /\ nap.clock + Sum(sleeps) <= MaxSleepClock
              /\ nap' = [end |-> end, sleeps |-> sleeps, clock |-> nap.clock + Sum(sleeps)]
    /\ UNCHANGED <<mainVars, dash, cfg, pre, ml, tok, dec, conn, buzzVars, lastCall, mailVars, dbVars>>

\* ------------------------------------------------------------ connections
\* mysql_insert.insert_mysql(fault_desc, fault_cat), as far as connections go
InsertCall ==
    /\ conn.opened < MaxInserts
    /\ \E executed \in BOOLEAN : conn' = insert_mysql_connection(conn, executed)
    /\ UNCHANGED <<mainVars, dash, cfg, pre, ml, tok, dec, nap, buzzVars, lastCall, mailVars, dbVars>>

\* The interpreter finalises an unreferenced connection object, or the
\* server drops an idle connection: nothing in the program asks for it.
ConnectionDropped ==
    /\ conn.open > 0
    /\ conn' = [conn EXCEPT !.op = "dropped", !.open = conn.open - 1]
    /\ UNCHANGED <<mainVars, dash, cfg, pre, ml, tok, dec, nap, buzzVars, lastCall, mailVars, dbVars>>

\* ------------------------------------------------------------ dashboard connector
\* Time passes.
DashTick ==
    /\ mode = "decoupled"
    /\ dash.now + ClockStep <= MaxClock
    /\ dash' = [dash EXCEPT !.now = @ + ClockStep]
    /\ UNCHANGED <<mainVars, cfg, pre, ml, tok, dec, nap, conn, buzzVars, lastCall, mailVars, dbVars>>

\* initialize_system: system_state.dashboard.check_availability()
DashCheck ==
    /\ mode = "decoupled"
    /\ \E open \in BOOLEAN :
        /\ open \/ dash.consecutive_failures < MaxFailures
        /\ dash' = check_availability(dash, "check_availability", open)
    /\ UNCHANGED <<mainVars, cfg, pre, ml, tok, dec, nap, conn, buzzVars, lastCall, mailVars, dbVars>>

\* safe_request: self.is_available()
DashIsAvailable ==
    /\ mode = "decoupled"
    /\ \E open \in BOOLEAN :
        /\ open \/ dash.consecutive_failures < MaxFailures
        /\ dash' = is_available(dash, open)
    /\ UNCHANGED <<mainVars, cfg, pre, ml, tok, dec, nap, conn, buzzVars, lastCall, mailVars, dbVars>>

\* ------------------------------------------------------------ specifications
\* The whole program.
Next ==
    \/ AppMain
    \/ FinalMain
    \/ FinalRestart
    \/ ImsImport
    \/ Arrive
    \/ ServerStops
    \/ Tick
    \/ Fetch
    \/ ProcessMessage
    \/ EndCycle
    \/ auto_deactivate
    \/ deactivate_after_delay
    \/ signal_buzzer
    \/ test_buzzer_api
    \/ stop_buzzer_api
    \/ start_system_api
    \/ signal_handler
    \/ ProcessEmailStep
    \/ RefreshStep
    \/ StatusStep
    \/ DashTick
    \/ DashCheck
    \/ DashIsAvailable
    \/ HealthTick
    \/ LoadConfig
    \/ GetConfig
    \/ RunPreflight
    \/ MlInitialize
    \/ MlNewInstance
    \/ NewClient
    \/ InstallTokenFile
    \/ Authenticate
    \/ Decide
    \/ LoopCycle
    \/ InsertCall
    \/ ConnectionDropped
    \/ timer_fires
    \/ ValidateAll

Spec == Init /\ [][Next]_vars

\* The polling loop with the mailbox, the fault table and the counters, and
\* the buzzer as the loop drives it (no dashboard calls).
LoopNext ==
    \/ AppMain
    \/ FinalMain
    \/ ImsImport
    \/ Arrive
    \/ Tick
    \/ Fetch
    \/ ProcessMessage
    \/ EndCycle
    \/ auto_deactivate
    \/ deactivate_after_delay
    \/ signal_buzzer

LoopSpec == Init /\ [][LoopNext]_vars

\* The buzzer control under every order of its calls: alarm activations of
\* the polling loop, dashboard calls, timers, time, server failure, shutdown.
BuzzerNext ==
    \/ AppMain
    \/ FinalMain
    \/ ImsImport
    \/ ServerStops
    \/ Tick
    \/ alarm_activation
    \/ auto_deactivate
    \/ deactivate_after_delay
    \/ signal_buzzer
    \/ test_buzzer_api
    \/ stop_buzzer_api
    \/ start_system_api
    \/ signal_handler

BuzzerSpec == Init /\ [][BuzzerNext]_vars

\* The buzzer control with calls that overlap a timer thread that has
\* already begun to run.
RaceNext ==
    \/ AppMain
    \/ FinalMain
    \/ ImsImport
    \/ ServerStops
    \/ Tick
    \/ alarm_activation
    \/ auto_deactivate
    \/ timer_fires
    \/ deactivate_after_delay
    \/ signal_buzzer
    \/ test_buzzer_api
    \/ stop_buzzer_api
    \/ start_system_api
    \/ signal_handler

RaceSpec == Init /\ [][RaceNext]_vars



\* prediction_fin.classifier_pred(new_text) on its own: the five models
\* predict, three predictions are counted.
Classify ==
    /\ \E p \in Ballots :
        ballot' = [LR |-> p.LR, SVM |-> p.SVM, RF |-> p.RF, Naive |-> p.Naive,
                   DTC |-> p.DTC, out |-> classifier_pred(Text(40, 0, thislistt(p)))]
    /\ UNCHANGED <<mode, sideVars, pc, running, gmail, logVars, storeVars, startVars, buzzVars, lastCall, mailVars, dbVars>>

ClassifierNext == Classify

ClassifierSpec == Init /\ [][ClassifierNext]_vars

\* ------------------------------------------------------------ log store
\* s[:n] of a Python list.
Prefix(s, n) == SubSeq(s, 1, Min(n, Len(s)))

\* add_log that inserts and never trims.
add_log_NoTrim(l, entry) == <<entry>> \o l

\* SystemState.add_log: insert at the front, keep the first 100.
add_log(l, entry) == Prefix(<<entry>> \o l, LOG_CAP)

\* The 'logs' field of SystemState.get_status_dict().
status_logs(l) == Prefix(l, STATUS_LOGS)

\* One add_log call; the entry is known by the number of the call.
AddLog ==
    /\ logged < MaxLogs
    /\ logged' = logged + 1
    /\ logs' = add_log(logs, logged + 1)
    /\ UNCHANGED <<mode, sideVars, pc, running, gmail, ballot, storeVars, startVars, buzzVars, lastCall, mailVars, dbVars>>

LogNext == AddLog

LogSpec == Init /\ [][LogNext]_vars

\* The counters of the state store under the threads of app.py.
StoreNext ==
    \/ AppMain
    \/ ProcessEmailStep
    \/ RefreshStep
    \/ StatusStep

StoreSpec == Init /\ [][StoreNext]_vars

\* The dashboard connector of final.py under its callers and the clock.
DashNext ==
    \/ DashTick
    \/ DashCheck
    \/ DashIsAvailable

DashSpec == Init /\ [][DashNext]_vars

\* final.py with its health thread: the field bus stopping and being
\* restarted while the polling thread activates the buzzer.
HealthNext ==
    \/ FinalMain
    \/ ServerStops
    \/ HealthTick
    \/ Tick
    \/ alarm_activation
    \/ deactivate_after_delay

HealthSpec == Init /\ [][HealthNext]_vars

\* The configuration loader under its callers.
ConfigNext ==
    \/ LoadConfig
    \/ GetConfig

ConfigSpec == Init /\ [][ConfigNext]_vars

\* The preflight validator alone.
PreflightNext == RunPreflight

PreflightSpec == Init /\ [][PreflightNext]_vars

\* The hardened model manager and its cache directory.
MlNext ==
    \/ MlInitialize
    \/ MlNewInstance

MlSpec == Init /\ [][MlNext]_vars

\* The secure mail client and its token file.
TokNext ==
    \/ NewClient
    \/ InstallTokenFile
    \/ Authenticate

TokSpec == Init /\ [][TokNext]_vars

\* The decision policy on its own.
DecisionNext == Decide

DecisionSpec == Init /\ [][DecisionNext]_vars

\* The polling loops' pacing.
SleepNext == LoopCycle

SleepSpec == Init /\ [][SleepNext]_vars

\* The persistence layer's connections.
ConnNext ==
    \/ InsertCall
    \/ ConnectionDropped

ConnSpec == Init /\ [][ConnNext]_vars

\* One validator instance, its text taken as written.
ValidatorNext == ValidateAll

ValidatorSpec == Init /\ [][ValidatorNext]_vars

\* ------------------------------------------------------------ startup
\* Process start, restart and exit of the three programs.
StartNext ==
    \/ AppMain
    \/ FinalMain
    \/ FinalRestart
    \/ ImsImport
    \/ signal_handler

StartSpec == Init /\ [][StartNext]_vars

\* ------------------------------------------------------------ loop claims
\* The latest pass went through the step called name.
Has(name) == \E i \in 1..Len(pass.steps) : pass.steps[i] = name

HasAfter(name) == \E i \in 1..Len(pass'.steps) : pass'.steps[i] = name

Handled == {"integrated", "decoupled"}

\* C1, as stated: in integrated and decoupled modes, a message classified
\* "alarm" whose insert raised still has the buzzer activation called for it
\* and is still marked read.
C1_AlarmDespiteInsertFailure ==
    (/\ mode \in Handled
     /\ Has("persist")
     /\ ~pass.insert
     /\ Lower(pass.pred) = "alarm")
    => pass.activate /\ Has("mark_read")

\* The pass over a message of the listing that is classified "alarm" and whose
\* insert does not raise.
AlarmPass ==
    /\ ProcessMessage
    /\ mode \in Handled
    /\ Lower(pass'.pred) = "alarm"
    /\ pass'.insert

\* The cycle's listing held one message, an alarm, which is stored, and the
\* for loop is over.
OneAlarmCycleDone ==
    /\ mode \in Handled
    /\ pc = "listing"
    /\ listing = <<>>
    /\ cycleBase.size = 1
    /\ Lower(pass.pred) = "alarm"
    /\ pass.insert

\* C2: handling one alarm message with a working database adds exactly one
\* row (category as predicted) to the table, adds 1 to total_today and
\* alarms_today and nothing to info_today, and calls the buzzer activation
\* exactly once, which on a running server succeeds; at the end of a cycle
\* whose listing was that message the table has one row more than at the
\* fetch, and so have the counters after the cycle's refresh if they agreed
\* with the table at the fetch.
C2_OneAlarmMessage ==
    /\ [][AlarmPass =>
            /\ Len(faults') = Len(faults) + 1
            /\ SubSeq(faults', 1, Len(faults)) = faults
            /\ faults'[Len(faults')].msg = Head(listing).id
            /\ faults'[Len(faults')].category = pass'.pred
            /\ email_stats' = [email_stats EXCEPT !.total_today = @ + 1,
                                                   !.alarms_today = @ + 1]
            /\ Len(SelectSeq(pass'.steps, LAMBDA x : x = "activate")) = 1
            /\ lastCall'.op = "activate"
            /\ lastCall'.d = BUZZER_DURATION
            /\ lastCall'.ok = (server = "running")
            /\ server = "running" =>
                  /\ buzzer_active'
                  /\ Block(hregs') = ON_PATTERN
                  /\ Len(threads') = (IF mode = "integrated" THEN 1 ELSE Len(threads) + 1)]_vars
    /\ [](OneAlarmCycleDone =>
            /\ Len(faults) = cycleBase.faults + 1
            /\ email_stats = [cycleBase.stats EXCEPT !.total_today = @ + 1,
                                                      !.alarms_today = @ + 1])
    /\ [][(/\ EndCycle
           /\ OneAlarmCycleDone
           /\ cycleBase.stats = DbStats(SubSeq(faults, 1, cycleBase.faults))) =>
            email_stats' = [cycleBase.stats EXCEPT !.total_today = @ + 1,
                                                    !.alarms_today = @ + 1]]_vars

\* A one-message cycle has stored its alarm and sounded the buzzer.
C2_Witness ==
    /\ OneAlarmCycleDone
    /\ pass.pred = "Alarm"
    /\ pass.activate
    /\ pass.read
    /\ lastCall.ok
    /\ buzzer_active
    /\ faults # <<>>
    /\ faults[Len(faults)].category = "Alarm"
    /\ email_stats.alarms_today = cycleBase.stats.alarms_today + 1

\* The next message's body reaches the mode's threshold.
FilteredHead ==
    /\ listing # <<>>
    /\ MessageBody(mode, Head(listing)).len > 0
    /\ MessageBody(mode, Head(listing)).ratio >= Threshold(mode)

\* C3: a message whose similarity ratio is at or above the mode's threshold
\* is never classified, adds no row, changes no counter and calls no buzzer
\* activation; and when nothing raises it is marked read and is gone from
\* the unread inbox.
C3_FilteredMessage ==
    [][ProcessMessage /\ FilteredHead =>
        /\ ~HasAfter("classify")
        /\ ~HasAfter("persist")
        /\ ~HasAfter("activate")
        /\ pass'.pred = ""
        /\ UNCHANGED <<faults, email_stats, buzzVars, lastCall>>
        /\ ~pass'.raised =>
              /\ pass'.steps = <<"filter", "mark_read">>
              /\ \A i \in 1..Len(inbox') : inbox'[i].id # Head(listing).id]_vars

\* A message at exactly the threshold was filtered and marked read.
C3_Witness ==
    /\ pass.steps = <<"filter", "mark_read">>
    /\ ~pass.raised
    /\ pass.read
    /\ pass.id = 1
    /\ arrived = 1
    /\ inbox = <<>>
    /\ faults = <<>>
    /\ threads = <<>>

\* C4: in integrated and decoupled modes every pass of the for loop calls
\* mark_as_read on its message at least once before the loop goes on to the
\* next message, whatever the message was and wherever an exception was raised.
C4_MarkAttemptedAlways ==
    /\ [](mode \in Handled /\ pass.id # 0 => Has("mark_read"))
    /\ [][ProcessMessage /\ mode \in Handled =>
            /\ pass'.id = Head(listing).id
            /\ HasAfter("mark_read")
            /\ pass'.steps[Len(pass'.steps)] = "mark_read"
            /\ listing' = Tail(listing)]_vars

\* The classifier raised, and the handler marked the message read.
C4_Witness ==
    /\ mode \in Handled
    /\ pass.raised
    /\ Has("classify")
    /\ ~Has("persist")
    /\ pass.steps[Len(pass.steps)] = "mark_read"
    /\ pass.read

\* C5, as stated: in every mode, after a pass that raised an exception the
\* loop goes on with the remaining messages of the listing.
C5_ExceptionDoesNotStopListing ==
    [][ProcessMessage => pc' = "listing" /\ listing' = Tail(listing)]_vars

\* The place of a step in the fixed order.
Rank(name) ==
    CASE name = "filter" -> 1
      [] name = "truncate" -> 2
      [] name = "classify" -> 3
      [] name = "persist" -> 4
      [] name = "react" -> 5
      [] name = "activate" -> 6
      [] OTHER -> 7

\* C6: the steps of a pass come in the order filter, truncate, classify,
\* persist, react (counters, then activation), mark-read, each at most once
\* but for a repeated mark-read; a pass that stored its message went through
\* filter, classify and persist and stored at most 255 characters, truncating
\* a longer body; and the passes take the listing's messages one by one in
\* listing order, each pass complete before the next message is touched.
C6_FixedOrder ==
    /\ [](\A i, j \in 1..Len(pass.steps) :
            i < j => \/ Rank(pass.steps[i]) < Rank(pass.steps[j])
                     \/ pass.steps[i] = "mark_read" /\ pass.steps[j] = "mark_read")
    /\ [](pass.insert =>
            /\ Has("filter") /\ Has("classify") /\ Has("persist")
            /\ pass.desc <= MAX_DESC_LEN
            /\ ~pass.raised => pass.steps[Len(pass.steps)] = "mark_read")
    /\ [](\A i \in 1..Len(faults) : faults[i].len <= MAX_DESC_LEN)
    /\ [](\A i, j \in 1..Len(listing) : i < j => listing[i].id < listing[j].id)
    /\ [][ProcessMessage =>
            /\ pass'.id = Head(listing).id
            /\ (MessageBody(mode, Head(listing)).len > MAX_DESC_LEN /\ HasAfter("classify")
                  => HasAfter("truncate"))
            /\ pc' = "listing" => listing' = Tail(listing)]_vars

\* A body of 300 characters went through every step and was stored with 255.
C6_Witness ==
    /\ pass.steps = <<"filter", "truncate", "classify", "persist", "react", "mark_read">>
    /\ pass.desc = MAX_DESC_LEN
    /\ faults # <<>>
    /\ faults[Len(faults)].len = MAX_DESC_LEN
    /\ faults[Len(faults)].msg = pass.id


\* The next message has no plain body but an HTML body with text in it.
HtmlOnlyHead ==
    /\ listing # <<>>
    /\ Head(listing).plain.len = 0
    /\ Head(listing).html.len > 0

\* C15, as stated: in every mode a message with an empty plain body and a
\* non-empty HTML body is not skipped as empty: unless something raises, the
\* pass filters the extracted text, and classifies and persists it when the
\* filter lets it through.
C15_HtmlBodyProcessed ==
    [][ProcessMessage /\ HtmlOnlyHead /\ ~pass'.raised =>
        /\ HasAfter("filter")
        /\ (Head(listing).html.ratio < Threshold(mode) =>
                HasAfter("classify") /\ HasAfter("persist"))]_vars

\* ------------------------------------------------------------ buzzer claims
\* A call of BuzzerController.activate_buzzer: the dashboard's test, or the
\* polling loop's alarm activation.
ActivateCall == mode = "integrated" /\ (test_buzzer_api \/ alarm_activation)

\* The timer BuzzerController.active_timer refers to is still waiting.
TimerWaiting == \E i \in 1..Len(threads) : threads[i].ref /\ threads[i].rem > 0

\* C7, as stated: activate(d) on a running server writes ON and sets
\* buzzer_active; the flag stays set while the timer waits; and when the
\* timer fires it writes OFF and clears the flag - whatever has happened to
\* the server in the meantime.
C7_AsStated ==
    /\ [][ActivateCall /\ server = "running" =>
            Block(hregs') = ON_PATTERN /\ buzzer_active' /\ lastCall'.ok]_vars
    /\ [][auto_deactivate => Block(hregs') = OFF_PATTERN /\ ~buzzer_active']_vars

\* C7, amended: activate(d) on a running server writes ON at address 1, sets
\* buzzer_active and leaves one timer of d seconds; while that timer waits
\* the flag stays set and the block stays ON; the timer fires only once its
\* d seconds are over, and if the server is still running then, it writes
\* OFF at address 1 and clears the flag (otherwise it changes nothing).
C7_ActivateThenTimer ==
    /\ [][ActivateCall /\ server = "running" =>
            /\ Block(hregs') = ON_PATTERN
            /\ buzzer_active'
            /\ lastCall'.ok
            /\ threads' # <<>>
            /\ threads'[Len(threads')] = Thread(lastCall'.d, TRUE, TRUE)]_vars
    /\ [](mode = "integrated" /\ TimerWaiting =>
            buzzer_active /\ Block(hregs) = ON_PATTERN)
    /\ [][auto_deactivate =>
            /\ \E i \in 1..Len(threads) : threads[i].rem = 0
            /\ Len(threads') < Len(threads)
            /\ IF server = "running"
               THEN Block(hregs') = OFF_PATTERN /\ ~buzzer_active'
               ELSE hregs' = hregs /\ buzzer_active' = buzzer_active]_vars

\* The timer of a successful activation has fired on a running server.
C7_Witness ==
    /\ mode = "integrated"
    /\ lastCall.op \in {"activate", "test"}
    /\ lastCall.ok
    /\ server = "running"
    /\ threads = <<>>
    /\ ~buzzer_active
    /\ Block(hregs) = OFF_PATTERN

\* C8: whatever calls were made on BuzzerController, one at a time, at most
\* one deactivation timer waits; and after a successful activate(d2) the one
\* timer that waits is the new one, with d2 seconds to go, whatever was
\* waiting before.
C8_OneTimer ==
    /\ [](mode = "integrated" => Len(threads) <= 1)
    /\ [][ActivateCall /\ server = "running" =>
            threads' = <<Thread(lastCall'.d, TRUE, TRUE)>>]_vars

\* A test of 5 seconds was started while an earlier timer waited, and its
\* own timer is the only one.
C8_Witness ==
    /\ mode = "integrated"
    /\ lastCall.op = "test"
    /\ lastCall.d = TEST_DURATION
    /\ lastCall.ok
    /\ lastCall.pending = 1
    /\ threads = <<Thread(TEST_DURATION, TRUE, TRUE)>>

\* A sleeping thread of final.py or ims.py wakes up and writes OFF.
OffWrite ==
    \/ mode = "decoupled" /\ deactivate_after_delay /\ server = "running"
    \/ mode = "minimal" /\ signal_buzzer /\ Len(threads') < Len(threads)

\* C9, as stated: in decoupled and minimal modes no OFF write happens while
\* a later activation's duration has not elapsed.
C9_LaterSupersedes ==
    [][OffWrite => \A i \in 1..Len(threads') : threads'[i].rem = 0]_vars

\* C10: activate or test on a server that is absent or not running returns
\* failure and leaves the registers, buzzer_active, the timer reference and
\* the waiting timers as they were.
C10_UnavailableChangesNothing ==
    [][ActivateCall /\ server # "running" =>
        /\ ~lastCall'.ok
        /\ UNCHANGED <<server, hregs, buzzer_active, active_timer, threads>>]_vars

\* A test or activation failed on a stopped server while a timer waited, and
\* the timer still waits.
C10_Witness ==
    /\ mode = "integrated"
    /\ lastCall.op \in {"activate", "test"}
    /\ ~lastCall.ok
    /\ lastCall.pending = 1
    /\ server # "running"
    /\ buzzer_active
    /\ Len(threads) = 1


\* C11: deactivate (POST /api/stop-buzzer) on a running server, whatever
\* timer is waiting, cancels it, writes OFF at address 1, clears
\* buzzer_active and returns success; and as long as no other call is made
\* afterwards no timer waits, the block stays OFF and the flag stays clear:
\* the cancelled timer does nothing.
C11_StopCancelsTimer ==
    /\ [][stop_buzzer_api /\ server = "running" =>
            /\ lastCall'.ok
            /\ threads' = <<>>
            /\ active_timer' = "None"
            /\ Block(hregs') = OFF_PATTERN
            /\ hregs'[MODBUS_REGISTER] = hregs[MODBUS_REGISTER]
            /\ ~buzzer_active']_vars
    /\ [](mode = "integrated" /\ lastCall.op = "deactivate" /\ lastCall.ok =>
            /\ threads = <<>>
            /\ ~buzzer_active
            /\ Block(hregs) = OFF_PATTERN)

\* The buzzer was stopped while a timer waited; nothing waits any more.
C11_Witness ==
    /\ mode = "integrated"
    /\ lastCall.op = "deactivate"
    /\ lastCall.ok
    /\ lastCall.pending = 1
    /\ server = "running"
    /\ threads = <<>>
    /\ active_timer = "None"
    /\ ~buzzer_active
    /\ Block(hregs) = OFF_PATTERN


\* C12, as stated: once the server is set up, the single buzzer register
\* (address 10) holds 0 in every state of every mode, and the block at
\* address 1 holds nothing but zeros, the ON pattern or the OFF pattern.
C12_FlagRegisterNeverWritten ==
    pc # "boot" =>
        /\ hregs[MODBUS_REGISTER] = 0
        /\ Block(hregs) \in {<<0, 0, 0, 0, 0>>, ON_PATTERN, OFF_PATTERN}


\* C20: start-system sets running; it initializes the buzzer controller anew
\* (a new server, running with fresh registers and the flag set, or the flag
\* left unset on failure) only when the modbus flag is not set, and otherwise
\* leaves server, registers and flag alone; buzzer_active, the timers, the
\* counters, the fault table, the mailbox client, the polling thread and the
\* mailbox state are never changed by it.
C20_StartSystemFrame ==
    [][start_system_api =>
        /\ running'
        /\ modbus_ok => UNCHANGED <<server, hregs, modbus_ok>>
        /\ ~modbus_ok =>
              \/ /\ modbus_ok' /\ server' = "running"
                 /\ hregs' = set_holding_registers(FreshRegs, MODBUS_REGISTER, <<0>>)
              \/ /\ ~modbus_ok' /\ server' # "running"
        /\ UNCHANGED <<buzzer_active, active_timer, threads, lastCall, pc, gmail,
                       mailVars, dbVars>>]_vars

\* A buzzer call failed on a server that was not running, and start-system
\* has since brought a server up with the flag set.
C20_Witness ==
    /\ mode = "integrated" /\ Alive /\ running
    /\ lastCall.op # "none" /\ ~lastCall.ok
    /\ modbus_ok /\ server = "running"

\* C21: after a test or alarm activation has failed because the server is
\* not running, a start-system call initializes the buzzer controller anew:
\* with an initialization that succeeds it leaves a running server, on which
\* the next activation succeeds.
C21_FailedActivationRetryable ==
    (/\ mode = "integrated" /\ Alive
     /\ lastCall.op \in {"test", "activate"} /\ ~lastCall.ok
     /\ server # "running")
        => LET b == start_system_buzzer(BZ, "ok")
           IN b.server = "running" /\ activate_buzzer(b, BUZZER_DURATION).ret

\* ------------------------------------------------------------ classifier claims
\* Two of the three counted predictions of the latest call agree on label.
TwoAgreeOn(label) ==
    Cardinality({m \in {"SVM", "DTC", "RF"} : ballot[m] = label}) >= 2

\* C13: classifier_pred returns the label at least two of the support-vector,
\* decision-tree and random-forest predictions agree on whenever there is
\* one; the result is fixed by those three predictions alone (without a
\* majority it is the support-vector label), so the logistic-regression and
\* naive-Bayes predictions have no part in it.
C13_MajorityOfThree ==
    ballot # NoBallot =>
        /\ \A label \in Labels : TwoAgreeOn(label) => ballot.out = label
        /\ (\A label \in Labels : ~TwoAgreeOn(label)) => ballot.out = ballot.SVM

\* Decision tree and random forest say Alarm against the three others, and
\* the result is Alarm.
C13_Witness ==
    /\ ballot.SVM = "Information"
    /\ ballot.LR = "Information"
    /\ ballot.Naive = "Information"
    /\ ballot.DTC = "Alarm"
    /\ ballot.RF = "Alarm"
    /\ ballot.out = "Alarm"


\* C14, as stated: when the three counted predictions are pairwise distinct,
\* classifier_pred returns no label.
C14_TieFails ==
    (/\ ballot # NoBallot
     /\ ballot.SVM # ballot.DTC
     /\ ballot.SVM # ballot.RF
     /\ ballot.DTC # ballot.RF)
    => ballot.out \notin Labels


\* ------------------------------------------------------------ log claims
\* C16: after n add_log calls the store holds min(n, 100) entries, the
\* newest first (entry n, then n - 1, ...); the status snapshot holds the
\* newest min(n, 20) of them in the same order.
C16_LogRing ==
    /\ Len(logs) = Min(logged, LOG_CAP)
    /\ \A i \in 1..Len(logs) : logs[i] = logged - i + 1
    /\ Len(status_logs(logs)) = Min(logged, STATUS_LOGS)
    /\ \A i \in 1..Len(status_logs(logs)) : status_logs(logs)[i] = logged - i + 1

\* More than 100 entries were logged: 100 are kept, 20 are shown.
C16_Witness ==
    /\ logged > LOG_CAP
    /\ Len(logs) = LOG_CAP
    /\ logs[1] = logged
    /\ logs[LOG_CAP] = logged - LOG_CAP + 1
    /\ Len(status_logs(logs)) = STATUS_LOGS
    /\ status_logs(logs)[STATUS_LOGS] = logged - STATUS_LOGS + 1


\* ------------------------------------------------------------ startup claims
\* C17: in decoupled mode failed startups re-execute the process at most
\* max_restart_attempts (3) times in total: a process that starts after k
\* re-executions has the restart count k, and a failed startup after the
\* third re-execution exits with a non-zero code and re-executes no more.
C17_RestartsBounded ==
    mode = "decoupled" =>
        /\ execs <= MAX_RESTART_ATTEMPTS
        /\ pc = "boot" => restart_count = execs
        /\ execs = MAX_RESTART_ATTEMPTS /\ pc = "exited" /\ lastCall.op = "none"
              => exit_code # 0

\* C18: in integrated mode a start whose initialize_system() returns false
\* (buzzer initialization failed and no database) ends the process with exit
\* code 1; a signal-driven shutdown ends it with 0.
C18_InitFailureExitsOne ==
    [][/\ \A outcome \in InitOutcomes \ {"ok"}, gmailOk \in BOOLEAN :
            mode = "integrated" /\ pc = "boot" /\ AppMainWith(outcome, FALSE, gmailOk)
                => exit_code' = 1
       /\ signal_handler => exit_code' = 0]_vars


\* ------------------------------------------------------------ store claims
\* C19: every write of the store's counters is made by a thread holding the
\* store's lock; a /api/status answer never shows totalToday different from
\* alarmsToday + infoToday; and once the polling thread and the refreshing
\* request are both done, no increment is lost: the total counts at least the
\* notifications this process has stored.
C19_StoreUnderLock ==
    /\ [][email_stats' # email_stats /\ pc = "idle" => lock # "free"]_vars
    /\ [](snap.taken => snap.total_today = snap.alarms_today + snap.info_today)
    /\ [](poll.at = "idle" /\ req.at = "idle" /\ pc = "idle"
            => email_stats.total_today >= arrived)


C23_RestartEveryUnhealthyTick ==
    /\ [][HealthTick /\ server # "running" =>
            /\ lastCall'.op = "restart"
            /\ lastCall'.ok <=> server' = "running"
            /\ server' = "running" => hregs' = FreshRegs
            /\ server' # "running" => server' \in {"stopped", "None"}
            /\ pc' = pc /\ running' = running]_vars
    /\ [][HealthTick /\ server = "running" =>
            UNCHANGED <<server, hregs>> /\ lastCall'.op = "health"]_vars
    /\ [](mode = "decoupled" /\ Alive /\ running => ENABLED HealthTick)

\* A restart attempt has failed, the loops live on and the server is still down.
C23_Witness ==
    /\ mode = "decoupled" /\ Alive /\ running
    /\ lastCall.op = "restart" /\ ~lastCall.ok
    /\ server = "stopped" /\ threads # <<>>


\* ------------------------------------------------------------ configuration claims
\* C25, as stated: a load with DB_PASSWORD or SECRET_KEY unset or empty
\* fails, produces no Config, and its failure names every missing variable.
C25_AsStated ==
    cfg.call.op = "load_config" /\ cfg.call.missing # <<>> =>
        /\ ~cfg.call.ok
        /\ cfg.call.ret = NoConfig
        /\ cfg.call.named = cfg.call.missing

\* C25, amended: a load with DB_PASSWORD or SECRET_KEY unset or empty fails
\* and produces no Config; when the configuration file exists the failure
\* is the ValueError of the environment check, raised before any
\* substitution, and it names every missing variable; when the file does
\* not exist the failure is FileNotFoundError and names no variable.
C25_MissingVarsNamedWhenFileExists ==
    cfg.call.op = "load_config" /\ cfg.call.missing # <<>> =>
        /\ ~cfg.call.ok
        /\ cfg.call.ret = NoConfig
        /\ cfg.call.file_exists =>
              /\ cfg.call.error = "ValueError"
              /\ cfg.call.named = cfg.call.missing
              /\ cfg.call.reached = "env"
        /\ ~cfg.call.file_exists =>
              /\ cfg.call.error = "FileNotFoundError"
              /\ cfg.call.named = <<>>

\* Both variables are missing, the file exists: the failure names both.
C25_Witness ==
    /\ cfg.call.op = "load_config" /\ cfg.call.file_exists
    /\ cfg.call.missing = <<"DB_PASSWORD", "SECRET_KEY">>
    /\ cfg.call.named = <<"DB_PASSWORD", "SECRET_KEY">>
    /\ ~cfg.call.ok

\* C26: after a successful load the boolean field holds the boolean the
\* token conversion gives for what was supplied, and the integer field
\* holds a number, whether they were supplied as YAML scalars or as strings.
C26_FieldsCoerced ==
    cfg.config # NoConfig =>
        /\ cfg.config.debug.t = "bool"
        /\ cfg.config.port.t = "int"
        /\ cfg.call.op = "load_config" /\ cfg.call.ok =>
              /\ cfg.config.debug = convert_types(cfg.call.debug, "bool")
              /\ cfg.config.port = convert_types(cfg.call.port, "int")

\* C27: get_config fails exactly while no load_config has succeeded and
\* otherwise returns the global Config; a failing load_config leaves the
\* global Config as it was; a successful one replaces it with the new Config.
C27_ConfigSingleton ==
    /\ (cfg.config = NoConfig) <=> (cfg.succeeded = 0)
    /\ cfg.call.op = "get_config" =>
          /\ cfg.call.ok <=> cfg.succeeded > 0
          /\ ~cfg.call.ok => cfg.call.error = "RuntimeError"
          /\ cfg.call.ok => cfg.call.ret = cfg.config
          /\ cfg.config = cfg.call.prev
    /\ cfg.call.op = "load_config" /\ ~cfg.call.ok => cfg.config = cfg.call.prev
    /\ cfg.call.op = "load_config" /\ cfg.call.ok =>
          /\ cfg.config = cfg.call.ret
          /\ cfg.config.id = cfg.loads
          /\ cfg.config # cfg.call.prev

\* A load has failed after an earlier one had succeeded; the earlier Config
\* is still the global one.
C27_Witness ==
    /\ cfg.call.op = "load_config" /\ ~cfg.call.ok
    /\ cfg.succeeded > 0
    /\ cfg.config # NoConfig /\ cfg.config = cfg.call.prev
    /\ cfg.config.id < cfg.loads


\* ------------------------------------------------------------ preflight claims
\* C24: a preflight run reports overall success exactly when no critical
\* check failed; a failing advisory check is listed as a warning and does
\* not make the run unsuccessful; a failing critical check does.
C24_SuccessIffNoCriticalFailure ==
    pre.phase # "none" =>
        /\ pre.phase = "done"
        /\ pre.overall_success <=>
              (\A c \in CheckNames \ AdvisoryChecks : pre.outcomes[c] = "pass")
        /\ \A c \in AdvisoryChecks :
              pre.outcomes[c] = "fail" => \E i \in 1..Len(pre.warnings) : pre.warnings[i] = c


\* ------------------------------------------------------------ model manager claims
\* C28: an initialize() that gets past dataset validation retrains exactly
\* when retraining is forced, no cache exists, the dataset hash differs from
\* the cached one, or a cached accuracy is below the threshold - whichever
\* process or instance wrote the cache; otherwise it reuses the cache.
C28_CacheReusedAcrossInstances ==
    ml.call.op = "initialize" /\ ml.call.ok =>
        (ml.call.trained <=>
            \/ ml.call.force
            \/ ~ml.call.cached.present
            \/ ml.call.cached.hash # ml.call.dataset.hash
            \/ ~ml.call.cached.accurate)

\* C29: validation passes exactly when the file has both columns, at least
\* 50 rows, at most 10% of rows without email_text, at most 10% without
\* type, and at least 2 distinct categories; an initialize() on a dataset
\* that does not pass fails, with a reason that names the violation.
C29_DatasetValidation ==
    ml.call.op = "initialize" =>
        LET d == ml.call.dataset
            sound == /\ d.exists /\ d.columns
                     /\ d.rows >= MIN_ROWS
                     /\ d.empty_text * 100 <= MAX_EMPTY_PCT * d.rows
                     /\ d.empty_type * 100 <= MAX_EMPTY_PCT * d.rows
                     /\ d.categories >= 2
            passed == ml.call.ok \/ ml.call.reason = "training failed"
        IN /\ passed <=> sound
           /\ ~passed => ml.call.reason \notin {"none", "Unknown error"}


\* ------------------------------------------------------------ credential claims
\* C30: _authenticate returns the stored credentials unchanged when they are
\* valid and more than the refresh threshold (one hour) from expiry; when
\* they are valid within the threshold, or expired with a refresh token,
\* and the refresh and the save succeed, it returns refreshed credentials;
\* in every other case that returns, the credentials come from the
\* interactive flow. Credentials from a refresh or from the flow are in the
\* token file when it returns.
C30_AuthenticateCases ==
    tok.call.op = "authenticate" /\ tok.call.path # "raised" =>
        LET c == tok.call.loaded
            within == c.has_expiry /\ c.expiry <= REFRESH_THRESHOLD_HOURS
            usable == tok.call.found /\ valid(c)
        IN /\ usable /\ ~within =>
                tok.call.path = "stored" /\ tok.call.ret = c /\ ~tok.call.saved
           /\ usable /\ within => tok.call.path = "refreshed"
           /\ tok.call.path \in {"refreshed", "flow"} =>
                /\ tok.call.saved
                /\ load_credentials(tok) = [found |-> TRUE, creds |-> tok.call.ret]
           /\ tok.call.path = "refreshed" =>
                tok.call.found /\ (usable \/ (expired(c) /\ c.refresh_token))


\* ------------------------------------------------------------ decision claims
\* text is word surrounded by whitespace only, letter case aside
Padded(text, word) ==
    \E i \in 0..Len(text) :
        /\ i + Len(word) <= Len(text)
        /\ \A k \in 1..i : text[k] \in Whitespace
        /\ \A k \in 1..Len(word) : LowerChar(text[i + k]) = word[k]
        /\ \A k \in (i + Len(word) + 1)..Len(text) : text[k] \in Whitespace

\* C31: should_sound_buzzer returns true exactly when the category,
\* trimmed and lowercased, is "alarm" and the severity, trimmed and
\* lowercased, is "high" or "critical"; an absent (or None) entry counts as
\* the empty string and yields false.
C31_SoundIffAlarmAndSevere ==
    dec.op = "decide" =>
        /\ dec.ret <=>
            /\ dec.pred.category.kind = "str"
            /\ Padded(dec.pred.category.text, <<"a", "l", "a", "r", "m">>)
            /\ dec.pred.severity.kind = "str"
            /\ \/ Padded(dec.pred.severity.text, <<"h", "i", "g", "h">>)
               \/ Padded(dec.pred.severity.text, <<"c", "r", "i", "t", "i", "c", "a", "l">>)
        /\ (dec.pred.category.kind # "str" \/ dec.pred.severity.kind # "str") => ~dec.ret

C31_Witness ==
    /\ dec.op = "decide" /\ dec.ret
    /\ dec.pred.category = Str(<<" ", "A", "L", "A", "R", "M", "\n">>)
    /\ dec.pred.severity = Str(<<"\t", "h", "i", "g", "h", " ">>)

\* C37 as stated: whenever should_sound_buzzer returns true, the live test
\* on the same category value sounds the buzzer too.
C37_AsStated ==
    dec.op = "decide" /\ dec.ret => live_alarm_check(dec.pred.category.text)

\* C37: whenever should_sound_buzzer returns true, the live test sounds the
\* buzzer on the trimmed category value, and on the category value itself
\* when it has no leading or trailing whitespace.
C37_PolicyNoMorePermissiveOnTrimmed ==
    dec.op = "decide" /\ dec.ret =>
        /\ live_alarm_check(strip(dec.pred.category.text))
        /\ strip(dec.pred.category.text) = dec.pred.category.text
                => live_alarm_check(dec.pred.category.text)

C37_Witness ==
    /\ dec.op = "decide" /\ dec.ret
    /\ dec.pred.category = Str(<<"A", "l", "a", "r", "m">>)
    /\ live_alarm_check(dec.pred.category.text)


\* ------------------------------------------------------------ pacing claims
\* C32: in app.py and final.py, after a pass that ends in an uncaught
\* loop-level error the loop sleeps 60 seconds in all before the next pass
\* (not 60 plus the poll interval); after a pass without such an error it
\* sleeps exactly the poll interval.
C32_ErrorSleepReplacesInterval ==
    mode \in {"integrated", "decoupled"} =>
        /\ nap.end = "error" => Sum(nap.sleeps) = ERROR_SLEEP
        /\ nap.end = "completed" => Sum(nap.sleeps) = EMAIL_CHECK_INTERVAL


\* ------------------------------------------------------------ connection claims
\* C33: every insert call opens exactly one new connection and has closed
\* it when it returns, so right after any insert no connection is open.
C33_InsertClosesItsConnection ==
    conn.op = "insert" => conn.open = 0 /\ conn.closed = conn.opened


\* ------------------------------------------------------------ race claims
\* The timer of the latest successful activation is waiting, time left.
NewTimerWaiting ==
    /\ mode = "integrated"
    /\ server = "running"
    /\ lastCall.op \in {"activate", "test"} /\ lastCall.ok
    /\ \E i \in 1..Len(threads) : threads[i].ref /\ threads[i].rem > 0

\* C34: once activate(d) has returned success, with no deactivate or
\* cleanup after it, the deactivation run by the timer of an earlier
\* activation neither cancels the new timer nor writes OFF over the new ON:
\* the block stays ON and buzzer_active stays true while the new timer waits.
C34_StaleTimerHarmless ==
    [][NewTimerWaiting /\ auto_deactivate =>
            /\ \E i \in 1..Len(threads') : threads'[i].ref /\ threads'[i].rem > 0
            /\ Block(hregs') = ON_PATTERN
            /\ buzzer_active']_vars


\* C35: between BuzzerController operations, after any sequence of
\* initialize, activate, test, deactivate, timer expiry and cleanup,
\* buzzer_active is true exactly when the block at address 1 holds the ON
\* pattern; after cleanup the block holds the OFF pattern, buzzer_active is
\* false and no timer is left to fire.
C35_FlagMirrorsBlock ==
    mode = "integrated" =>
        /\ buzzer_active <=> Block(hregs) = ON_PATTERN
        /\ lastCall.op = "cleanup" =>
            /\ Block(hregs) = OFF_PATTERN
            /\ ~buzzer_active
            /\ threads = <<>>


\* ------------------------------------------------------------ duplicate claims
\* C36: in app.py and final.py, over any number of polling cycles, one
\* inbound message produces at most one fault record (and with it at most
\* one buzzer activation), even when marking it read fails and the next
\* cycle lists it again.
C36_OneRecordPerMessage ==
    mode \in Handled =>
        \A i, j \in 1..Len(faults) :
            faults[i].msg = faults[j].msg /\ faults[i].msg # PriorRow.msg => i = j


\* ------------------------------------------------------------ validator claims
\* C38: for every validate_all call, a repeated one on the same instance
\* included, the success flag and the two lists reflect the checks of that
\* run only: a check is a critical failure exactly when its result in the
\* returned map is not passed and critical, a warning exactly when it is
\* not passed and not critical, and success means no critical failure.
C38_ListsReflectThisRun ==
    pre.phase = "done" =>
        /\ pre.critical_failures = FailedCritical(pre.outcomes)
        /\ pre.warnings = FailedAdvisory(pre.outcomes)
        /\ pre.overall_success <=> FailedCritical(pre.outcomes) = <<>>


\* C39: an initialize() that fails after an earlier successful one leaves
\* the manager consistent: whenever is_initialized is true, the vectorizer
\* and the model set come from the same training run, so predict never
\* transforms text with a vectorizer the models were not trained with.
C39_FailedInitializeKeepsPair ==
    ml.is_initialized => ml.models # 0 /\ ml.vectorizer = ml.models

=============================================================================
